---- MODULE Spec2Model ----
(***************************************************************************)
(* Verification model of the arbitrage detection engine:                   *)
(*   - RateLimiter and RetryHandler        (utils/rateLimiter)             *)
(*   - ArbitrageDetector.detectOpportunities and its scans (arbDetector)   *)
(*   - the cron / start-up triggers of ArbitrageBot.startArbitrageWorker   *)
(* Each component has its own specification over the shared variables; a   *)
(* component that a specification does not exercise stays parked in its    *)
(* constructed state.                                                      *)
(***************************************************************************)
EXTENDS Integers, Sequences, FiniteSets, TLC

VARIABLES
    \* ---- RateLimiter (one instance) ----
    options,          \* RateLimiterOptions given to the constructor
    requests,         \* this.requests: timestamps of the dispatches in the window
    queue,            \* this.queue: pending calls, oldest first
    processing,       \* this.processing
    lastRequestTime,  \* this.lastRequestTime
    loop,             \* where the processQueue loop is suspended
    now,              \* Date.now()
    calls,            \* status of every call handed to execute()
    log,              \* history: the dispatches, in order, with their time
    \* ---- RetryHandler.withExponentialBackoff (one invocation) ----
    retryOptions,     \* maxRetries, baseDelay, maxDelay
    retry,            \* the for-loop: where it is suspended, attempt, outcome
    invocations,      \* history: number of times fn was invoked
    raised,           \* history: the errors fn raised, in order
    sleeps,           \* history: the backoff delays slept, in order
    \* ---- ArbitrageBot worker and ArbitrageDetector cycles ----
    chainBlock,         \* the chain's current block number
    lastProcessedBlock, \* ArbitrageDetector.lastProcessedBlock
    cyc,                \* each detectOpportunities activation: pc and locals
    startupDone,        \* the setImmediate start-up run has been started
    triggers,           \* number of activations started so far
    alive,              \* the process has not been shut down
    hist,               \* history of each activation: what it handed to the sink
    \* ---- the two scans of one activation, candidate by candidate ----
    scan,               \* locals of detectSimpleArbitrage / detectTriangularArbitrage
    \* ---- SimulatorService: one set of arguments and what the calls returned ----
    math,
    \* ---- one pair or one triple under examination by the detector ----
    arb,                \* its pairs, the configuration, and what the checks returned
    \* ---- DEXService token cache ----
    tok,                \* this.tokenCache and every getTokenInfo call
    \* ---- DEXService: one call at a time, down to its network reads ----
    access,             \* the call in progress and the reads started so far
    \* ---- DEXService pair-address cache ----
    pairCache           \* this.pairAddressCache and every getPairAddress call

rlVars == <<options, requests, queue, processing, lastRequestTime, loop, now,
            calls, log>>

rtVars == <<retryOptions, retry, invocations, raised, sleeps>>

wkVars == <<chainBlock, lastProcessedBlock, cyc, startupDone, triggers, alive,
            hist>>

scVars == <<scan>>

mathVars == <<math>>

arbVars == <<arb>>

tokVars == <<tok, access, pairCache>>

fnVars == <<mathVars, arbVars, tokVars>>

vars == <<rlVars, rtVars, wkVars, scVars, fnVars>>

Max(a, b) == IF a >= b THEN a ELSE b
Min(a, b) == IF a <= b THEN a ELSE b

(***************************************************************************)
(* RateLimiter                                                             *)
(***************************************************************************)
\* Bounds of the limiter scenarios.
MaxCalls == 4          \* calls submitted with execute()
MaxTime == 6           \* clock ticks explored
MaxRequestsOpt == 2    \* largest options.maxRequests drawn
MaxWindowOpt == 3      \* largest options.timeWindow drawn
MaxIntervalOpt == 2    \* largest options.minInterval drawn

RateLimiterOptions ==
    [maxRequests : 1..MaxRequestsOpt,
     timeWindow  : 2..MaxWindowOpt,
     minInterval : 1..MaxIntervalOpt]

CallIds == 1..MaxCalls

Suspended(pc, wake, id) == [pc |-> pc, wake |-> wake, id |-> id]
NotRunning == Suspended("idle", 0, 0)

\* cleanOldRequests: keep the timestamps strictly younger than the window.
cleanOldRequests(reqs, t) ==
    SelectSeq(reqs, LAMBDA time : time > t - options.timeWindow)

\* Off by one: admits a call when the window already holds maxRequests.
canMakeRequestInclusive(reqs, t) ==
    Len(cleanOldRequests(reqs, t)) <= options.maxRequests

\* canMakeRequest, on the cleaned list.
canMakeRequest(reqs, t) ==
    Len(cleanOldRequests(reqs, t)) < options.maxRequests

\* getWaitTime.
getWaitTime(reqs, last, t) ==
    LET r == cleanOldRequests(reqs, t)
    IN  IF Len(r) = 0 THEN 0
        ELSE LET timeUntilWindowReset == options.timeWindow - (t - r[1])
                 timeUntilMinInterval == options.minInterval - (t - last)
             IN  Max(Max(timeUntilWindowReset, timeUntilMinInterval), 0)

\* Takes the newest entry instead of the oldest (queue.pop()).
shiftNewest(q) == [item |-> q[Len(q)], rest |-> SubSeq(q, 1, Len(q) - 1)]

\* The entry the loop takes from the queue (queue.shift()).
shift(q) == [item |-> Head(q), rest |-> Tail(q)]

\* The statements of processQueue from the loop test to the next await, with
\* q the queue and cs the call statuses at that point.
LoopHead(q, cs) ==
    IF Len(q) = 0
    THEN /\ processing' = FALSE
         /\ loop' = NotRunning
         /\ queue' = q
         /\ calls' = cs
         /\ UNCHANGED <<requests, lastRequestTime, log>>
    ELSE IF ~canMakeRequest(requests, now)
    THEN /\ processing' = TRUE
         /\ requests' = cleanOldRequests(requests, now)
         /\ loop' = Suspended("waiting",
                              now + getWaitTime(requests, lastRequestTime, now), 0)
         /\ queue' = q
         /\ calls' = cs
         /\ UNCHANGED <<lastRequestTime, log>>
    ELSE LET s == shift(q)
         IN  /\ processing' = TRUE
             /\ queue' = s.rest
             /\ requests' = Append(cleanOldRequests(requests, now), now)
             /\ lastRequestTime' = now
             /\ loop' = Suspended("running", 0, s.item)
             /\ calls' = [cs EXCEPT ![s.item] = "running"]
             /\ log' = Append(log, [id |-> s.item, at |-> now])

\* execute(fn) that pushes the call and does not call processQueue().
ExecuteNoLoop ==
    /\ \E id \in CallIds :
        /\ calls[id] = "new"
        /\ \A j \in CallIds : j < id => calls[j] # "new"
        /\ queue' = Append(queue, id)
        /\ calls' = [calls EXCEPT ![id] = "queued"]
        /\ UNCHANGED <<requests, processing, lastRequestTime, loop, log>>
    /\ UNCHANGED <<options, now>>

\* execute(fn) with a processQueue that does not test `processing`.
ExecuteUnguarded ==
    /\ \E id \in CallIds :
        /\ calls[id] = "new"
        /\ \A j \in CallIds : j < id => calls[j] # "new"
        /\ LoopHead(Append(queue, id), [calls EXCEPT ![id] = "queued"])
    /\ UNCHANGED <<options, now>>

\* execute(fn): push the call, then processQueue(), which returns at once when
\* a loop is already active and otherwise runs up to its first await.
Execute ==
    /\ \E id \in CallIds :
        /\ calls[id] = "new"
        /\ \A j \in CallIds : j < id => calls[j] # "new"
        /\ IF processing
           THEN /\ queue' = Append(queue, id)
                /\ calls' = [calls EXCEPT ![id] = "queued"]
                /\ UNCHANGED <<requests, processing, lastRequestTime, loop, log>>
           ELSE LoopHead(Append(queue, id), [calls EXCEPT ![id] = "queued"])
    /\ UNCHANGED <<options, now>>

\* The awaited fn() settles: resolve or reject the caller, then sleep
\* minInterval when more calls are queued, else go round the loop (and end it).
FnSettles ==
    /\ loop.pc = "running"
    /\ \E ok \in BOOLEAN :
        LET cs == [calls EXCEPT ![loop.id] = IF ok THEN "resolved" ELSE "rejected"]
        IN  IF Len(queue) > 0
            THEN /\ loop' = Suspended("interval", now + options.minInterval, 0)
                 /\ calls' = cs
                 /\ UNCHANGED <<requests, queue, processing, lastRequestTime, log>>
            ELSE LoopHead(queue, cs)
    /\ UNCHANGED <<options, now>>

\* A sleep of the loop ends (a timer fires at or after its due time) and the
\* loop goes round again.
LoopWakes ==
    /\ loop.pc \in {"waiting", "interval"}
    /\ now >= loop.wake
    /\ LoopHead(queue, calls)
    /\ UNCHANGED <<options, now>>

\* Time passes.
Tick ==
    /\ now < MaxTime
    /\ now' = now + 1
    /\ UNCHANGED <<options, requests, queue, processing, lastRequestTime, loop,
                   calls, log>>

RLInit ==
    /\ options \in RateLimiterOptions
    /\ requests = <<>>
    /\ queue = <<>>
    /\ processing = FALSE
    /\ lastRequestTime = 0
    /\ loop = NotRunning
    /\ now = 1
    /\ calls = [id \in CallIds |-> "new"]
    /\ log = <<>>

\* The limiter as constructed by DEXService, not exercised.
RLParked ==
    /\ options = [maxRequests |-> MaxRequestsOpt, timeWindow |-> MaxWindowOpt,
                  minInterval |-> 1]
    /\ requests = <<>>
    /\ queue = <<>>
    /\ processing = FALSE
    /\ lastRequestTime = 0
    /\ loop = NotRunning
    /\ now = 1
    /\ calls = [id \in CallIds |-> "new"]
    /\ log = <<>>

(***************************************************************************)
(* RetryHandler                                                            *)
(***************************************************************************)
\* Option defaults of withExponentialBackoff.
DefaultMaxRetries == 3
DefaultBaseDelay == 1000
DefaultMaxDelay == 10000

\* Bounds of the other option values drawn.
MaxRetriesOpt == 2
MaxBaseDelayOpt == 2
MaxMaxDelayOpt == 3

DefaultRetryOptions ==
    [maxRetries |-> DefaultMaxRetries, baseDelay |-> DefaultBaseDelay,
     maxDelay |-> DefaultMaxDelay]

RetryOptionSets ==
    {DefaultRetryOptions}
    \cup [maxRetries : 0..MaxRetriesOpt, baseDelay : 1..MaxBaseDelayOpt,
          maxDelay : {1, MaxMaxDelayOpt}]

\* An error value as isRetryableError reads it: whether it is falsy, its .code
\* (absent, a number or a string) and which of the substrings the predicate
\* looks for occur in its lower-cased toString().
Err(falsy, codeKind, num, str, words) ==
    [falsy |-> falsy, codeKind |-> codeKind, num |-> num, str |-> str,
     words |-> words]

Errors ==
    { Err(TRUE, "none", 0, "", {}),                      \* throw null
      Err(FALSE, "none", 0, "", {}),                     \* Error("No pair found ...")
      Err(FALSE, "num", -32005, "", {}),                 \* JSON-RPC rate limit code
      Err(FALSE, "none", 0, "", {"too many requests"}),
      Err(FALSE, "none", 0, "", {"network"}),
      Err(FALSE, "none", 0, "", {"timeout"}),
      Err(FALSE, "none", 0, "", {"connection"}),
      Err(FALSE, "str", 0, "NETWORK_ERROR", {}),
      Err(FALSE, "str", 0, "TIMEOUT", {}),
      Err(FALSE, "str", 0, "CALL_EXCEPTION", {}),
      Err(FALSE, "num", 499, "", {}),
      Err(FALSE, "num", 500, "", {}),
      Err(FALSE, "num", 599, "", {}),
      Err(FALSE, "num", 600, "", {}) }

NoError == Err(TRUE, "none", 0, "", {"(nothing raised)"})

\* RetryHandler.isRetryableError.
isRetryableError(error) ==
    IF error.falsy THEN FALSE
    ELSE IF (error.codeKind = "num" /\ error.num = -32005)
            \/ "too many requests" \in error.words THEN TRUE
    ELSE IF \/ "network" \in error.words
            \/ "timeout" \in error.words
            \/ "connection" \in error.words
            \/ (error.codeKind = "str" /\ error.str = "NETWORK_ERROR")
            \/ (error.codeKind = "str" /\ error.str = "TIMEOUT") THEN TRUE
    ELSE IF error.codeKind = "num" /\ error.num >= 500 /\ error.num < 600 THEN TRUE
    ELSE FALSE

RECURSIVE Pow2(_)
Pow2(n) == IF n = 0 THEN 1 ELSE 2 * Pow2(n - 1)

\* Without the cap at maxDelay.
backoffDelayUncapped(attempt) == retryOptions.baseDelay * Pow2(attempt)

\* The delay slept after failed attempt number `attempt`.
backoffDelay(attempt) ==
    Min(retryOptions.baseDelay * Pow2(attempt), retryOptions.maxDelay)

\* Ignores the classification: every error is retried until exhaustion.
giveUpWhenExhausted(attempt, error) == attempt = retryOptions.maxRetries

\* Whether the catch block rethrows: the last attempt, or a fatal error.
giveUp(attempt, error) ==
    attempt = retryOptions.maxRetries \/ ~isRetryableError(error)

Values == {"value"}

Attempting(attempt) ==
    [pc |-> "calling", attempt |-> attempt, value |-> "", error |-> NoError]

\* The awaited fn() resolves: its value is returned.
RetryFnReturns ==
    /\ retry.pc = "calling"
    /\ \E v \in Values : retry' = [retry EXCEPT !.pc = "returned", !.value = v]
    /\ UNCHANGED <<retryOptions, invocations, raised, sleeps>>

\* The awaited fn() rejects: rethrow, or start the backoff sleep.
RetryFnThrows ==
    /\ retry.pc = "calling"
    /\ \E e \in Errors :
        /\ raised' = Append(raised, e)
        /\ IF giveUp(retry.attempt, e)
           THEN /\ retry' = [retry EXCEPT !.pc = "failed", !.error = e]
                /\ UNCHANGED sleeps
           ELSE /\ retry' = [retry EXCEPT !.pc = "sleeping", !.error = e]
                /\ sleeps' = Append(sleeps, backoffDelay(retry.attempt))
    /\ UNCHANGED <<retryOptions, invocations>>

\* The backoff timer fires: next iteration, fn is invoked again.
RetryBackoffDone ==
    /\ retry.pc = "sleeping"
    /\ retry' = [Attempting(retry.attempt + 1) EXCEPT !.error = retry.error]
    /\ invocations' = invocations + 1
    /\ UNCHANGED <<retryOptions, raised, sleeps>>

\* withExponentialBackoff(fn, options) entered: first iteration, fn invoked.
RTInit ==
    /\ retryOptions \in RetryOptionSets
    /\ retry = Attempting(0)
    /\ invocations = 1
    /\ raised = <<>>
    /\ sleeps = <<>>

RTParked ==
    /\ retryOptions = DefaultRetryOptions
    /\ retry = [pc |-> "none", attempt |-> 0, value |-> "", error |-> NoError]
    /\ invocations = 0
    /\ raised = <<>>
    /\ sleeps = <<>>

(***************************************************************************)
(* rateLimiter.execute(() => RetryHandler.withExponentialBackoff(read)):     *)
(* the two together, as every method of DEXService uses them                *)
(***************************************************************************)
\* What a read is taken to fail with: a network error, or a revert.
ReadErrors ==
    {Err(FALSE, "none", 0, "", {"network"}), Err(FALSE, "str", 0, "CALL_EXCEPTION", {})}

\* The fn of a call the loop has just dispatched is invoked: it enters
\* withExponentialBackoff with the default options and makes its first attempt.
FnStarts ==
    IF loop'.pc = "running"
    THEN /\ retry' = Attempting(0)
         /\ invocations' = 1
         /\ raised' = <<>>
         /\ sleeps' = <<>>
         /\ UNCHANGED retryOptions
    ELSE UNCHANGED rtVars

\* execute(() => withExponentialBackoff(read)).
ExecuteWithRetry == Execute /\ FnStarts

\* A sleep of the loop ends; the call it dispatches starts its attempts.
LoopWakesWithRetry == LoopWakes /\ FnStarts

\* The read of the current attempt answers.
AttemptReturns == loop.pc = "running" /\ RetryFnReturns

\* The read of the current attempt fails.
AttemptThrows == loop.pc = "running" /\ RetryFnThrows /\ raised'[Len(raised')] \in ReadErrors

\* The backoff sleep of the running call ends.
BackoffDone == loop.pc = "running" /\ RetryBackoffDone

\* withExponentialBackoff has returned or thrown: the awaited fn() settles
\* with that outcome.
FnSettlesWithRetry ==
    /\ retry.pc \in {"returned", "failed"}
    /\ FnSettles
    /\ calls'[loop.id] = (IF retry.pc = "returned" THEN "resolved" ELSE "rejected")

(***************************************************************************)
(* ArbitrageBot.startArbitrageWorker and ArbitrageDetector.detectOpportunities *)
(***************************************************************************)
\* Bounds of the worker scenarios.
NumCycles == 2         \* activations of detectOpportunities that may overlap
MaxTriggers == 2       \* activations started in one behaviour
MaxBlock == 2          \* highest chain block number

Cycles == 1..NumCycles

\* What a scan returns, as far as detectOpportunities looks at it: an empty
\* list or not.
ScanResults == {"empty", "some"}

IdleCycle ==
    [pc |-> "idle", currentBlock |-> 0, simple |-> "empty", tri |-> "empty"]

\* What an activation did to the outside: the phases it entered, what it
\* handed to the sink, the block it fetched, and whether it wrote
\* lastProcessedBlock.
NoHistory ==
    [outcome |-> "none", phases |-> <<>>, skipTest |-> <<>>,
     save |-> "notCalled", metrics |-> "notCalled", errCount |-> "notCalled",
     wroteLastProcessed |-> FALSE, currentBlock |-> 0]

\* Skips only a strictly older block.
noNewBlockStrict(currentBlock, lpb) == currentBlock < lpb

\* The test `currentBlock <= this.lastProcessedBlock` that skips the cycle.
noNewBlock(currentBlock, lpb) == currentBlock <= lpb

\* saveOpportunities([...simple, ...triangular]): returns at once for an empty
\* list; otherwise reads block number and gas price and writes the records,
\* and catches whatever fails (ok = none of the three failed).
saveOpportunities(simple, tri, ok) ==
    [sink |-> IF simple = "empty" /\ tri = "empty" THEN "skippedEmpty"
              ELSE IF ok THEN "stored" ELSE "dropped",
     thrown |-> FALSE]

\* updateSystemMetrics: count + upsert inside try/catch.
updateSystemMetrics(ok) ==
    [sink |-> IF ok THEN "applied" ELSE "failed", thrown |-> FALSE]

\* Without the upsert.
updateErrorCountNoop(ok) == [sink |-> "notCalled", thrown |-> FALSE]

\* Without the try/catch around the upsert.
updateErrorCountNoCatch(ok) ==
    [sink |-> IF ok THEN "incremented" ELSE "failed", thrown |-> ~ok]

\* updateErrorCount: upsert { errorCount: { increment: 1 } } inside try/catch.
updateErrorCount(ok) ==
    [sink |-> IF ok THEN "incremented" ELSE "failed", thrown |-> FALSE]

\* The cron / setImmediate callback: try { await detectOpportunities() }
\* catch { log }; `unhandled` would reach process.on('unhandledRejection').
workerCallback(rejected) == [unhandled |-> FALSE]

\* detectOpportunities() is entered: startTime is taken and
\* getCurrentBlockNumber() is awaited.
Begin(c) ==
    /\ cyc[c].pc = "idle"
    /\ \A d \in Cycles : d < c => cyc[d].pc # "idle"
    /\ triggers < MaxTriggers
    /\ alive
    /\ triggers' = triggers + 1
    /\ cyc' = [cyc EXCEPT ![c] = [IdleCycle EXCEPT !.pc = "fetchBlock"]]
    /\ hist' = [hist EXCEPT ![c] =
                  [NoHistory EXCEPT !.outcome = "running",
                                    !.phases = <<"FetchBlock">>]]
    /\ UNCHANGED <<chainBlock, lastProcessedBlock, alive>>

\* setImmediate: the run at start-up.
StartupRun ==
    /\ ~startupDone
    /\ startupDone' = TRUE
    /\ \E c \in Cycles : Begin(c)

\* cron.schedule: the periodic run; nothing looks at runs still in progress.
CronRun ==
    /\ UNCHANGED startupDone
    /\ \E c \in Cycles : Begin(c)

\* The chain grows.
NewBlock ==
    /\ chainBlock < MaxBlock
    /\ chainBlock' = chainBlock + 1
    /\ UNCHANGED <<lastProcessedBlock, cyc, startupDone, triggers, alive, hist>>

\* detectOpportunities ends: it returns, or (rejected) its promise rejects.
End(c, h, outcome, rejected) ==
    /\ cyc' = [cyc EXCEPT ![c] = [IdleCycle EXCEPT !.pc = "ended"]]
    /\ hist' = [hist EXCEPT ![c] =
                  [h EXCEPT !.outcome = IF rejected THEN "rejected" ELSE outcome]]

\* The worker callback's await of detectOpportunities() settles; the callback
\* ends and nothing of the activation remains.
Return(c) ==
    /\ cyc[c].pc = "ended"
    /\ cyc' = [cyc EXCEPT ![c] = IdleCycle]
    /\ hist' = [hist EXCEPT ![c] = NoHistory]
    /\ alive' = (alive /\ ~workerCallback(hist[c].outcome = "rejected").unhandled)
    /\ UNCHANGED <<chainBlock, lastProcessedBlock, startupDone, triggers>>

\* The catch block of detectOpportunities: log, then await updateErrorCount().
ToCatch(c, h) ==
    /\ cyc' = [cyc EXCEPT ![c].pc = "errCount"]
    /\ hist' = [hist EXCEPT ![c] =
                  [h EXCEPT !.phases = Append(h.phases, "ErrorCount")]]

\* getCurrentBlockNumber() settles: on failure the catch block; on success the
\* skip test, and detectSimpleArbitrage() is started unless the cycle is skipped.
BlockFetched(c) ==
    /\ cyc[c].pc = "fetchBlock"
    /\ \E ok \in BOOLEAN :
        IF ~ok
        THEN ToCatch(c, hist[c])
        ELSE IF noNewBlock(chainBlock, lastProcessedBlock)
        THEN End(c, [hist[c] EXCEPT !.skipTest = <<chainBlock, lastProcessedBlock>>],
                 "skipped", FALSE)
        ELSE /\ cyc' = [cyc EXCEPT ![c].pc = "simpleScan",
                                   ![c].currentBlock = chainBlock]
             /\ hist' = [hist EXCEPT ![c].phases = Append(@, "SimpleScan"),
                                     ![c].currentBlock = chainBlock]
    /\ UNCHANGED <<chainBlock, lastProcessedBlock, startupDone, triggers, alive>>

\* The simple results handed to saveOpportunities at once.
FinishSimpleScanSaves(c, r) ==
    /\ cyc' = [cyc EXCEPT ![c].pc = "save", ![c].simple = r]
    /\ hist' = [hist EXCEPT ![c].phases = Append(@, "Save")]

\* `await this.detectSimpleArbitrage()` resumes with the list r and
\* detectTriangularArbitrage() is started.
FinishSimpleScan(c, r) ==
    /\ cyc' = [cyc EXCEPT ![c].pc = "triScan", ![c].simple = r]
    /\ hist' = [hist EXCEPT ![c].phases = Append(@, "TriangularScan")]

\* `await this.detectTriangularArbitrage()` resumes with the list r and
\* saveOpportunities() is started with the simple results followed by the
\* triangular ones.
FinishTriScan(c, r) ==
    /\ cyc' = [cyc EXCEPT ![c].pc = "save", ![c].tri = r]
    /\ hist' = [hist EXCEPT ![c].phases = Append(@, "Save")]

\* detectSimpleArbitrage() as the worker sees it: it resolves with a list.
SimpleScanDone(c) ==
    /\ cyc[c].pc = "simpleScan"
    /\ \E r \in ScanResults : FinishSimpleScan(c, r)
    /\ UNCHANGED <<chainBlock, lastProcessedBlock, startupDone, triggers, alive>>

\* detectTriangularArbitrage() as the worker sees it: it resolves with a list.
TriScanDone(c) ==
    /\ cyc[c].pc = "triScan"
    /\ \E r \in ScanResults : FinishTriScan(c, r)
    /\ UNCHANGED <<chainBlock, lastProcessedBlock, startupDone, triggers, alive>>

\* saveOpportunities() settles; updateSystemMetrics() is started.
SaveDone(c) ==
    /\ cyc[c].pc = "save"
    /\ \E ok \in BOOLEAN :
        LET r == saveOpportunities(cyc[c].simple, cyc[c].tri, ok)
            h == [hist[c] EXCEPT !.save = r.sink]
        IN  /\ r.sink = "skippedEmpty" => ok
            /\ IF r.thrown
               THEN ToCatch(c, h)
               ELSE /\ cyc' = [cyc EXCEPT ![c].pc = "metrics"]
                    /\ hist' = [hist EXCEPT ![c] =
                                  [h EXCEPT !.phases = Append(h.phases, "Metrics")]]
    /\ UNCHANGED <<chainBlock, lastProcessedBlock, startupDone, triggers, alive>>

\* The end of the try block storing the newest block of the chain.
MetricsDoneNewestBlock(c) ==
    /\ cyc[c].pc = "metrics"
    /\ \E ok \in BOOLEAN :
        /\ lastProcessedBlock' = chainBlock
        /\ End(c, [hist[c] EXCEPT !.metrics = updateSystemMetrics(ok).sink,
                                  !.wroteLastProcessed = TRUE], "completed", FALSE)
    /\ UNCHANGED <<chainBlock, startupDone, triggers, alive>>

\* updateSystemMetrics() settles; then the limiter stats are logged and
\* lastProcessedBlock is set, and detectOpportunities returns.
MetricsDone(c) ==
    /\ cyc[c].pc = "metrics"
    /\ \E ok \in BOOLEAN :
        LET r == updateSystemMetrics(ok)
            h == [hist[c] EXCEPT !.metrics = r.sink]
        IN  IF r.thrown
            THEN /\ ToCatch(c, h)
                 /\ UNCHANGED lastProcessedBlock
            ELSE /\ lastProcessedBlock' = cyc[c].currentBlock
                 /\ End(c, [h EXCEPT !.wroteLastProcessed = TRUE], "completed", FALSE)
    /\ UNCHANGED <<chainBlock, startupDone, triggers, alive>>

\* updateErrorCount() settles and detectOpportunities returns from its catch
\* block.
ErrCountDone(c) ==
    /\ cyc[c].pc = "errCount"
    /\ \E ok \in BOOLEAN :
        LET r == updateErrorCount(ok)
        IN  End(c, [hist[c] EXCEPT !.errCount = r.sink], "failed", r.thrown)
    /\ UNCHANGED <<chainBlock, lastProcessedBlock, startupDone, triggers, alive>>

WKInit ==
    /\ chainBlock = 1
    /\ lastProcessedBlock = 0
    /\ cyc = [c \in Cycles |-> IdleCycle]
    /\ startupDone = FALSE
    /\ triggers = 0
    /\ alive = TRUE
    /\ hist = [c \in Cycles |-> NoHistory]

(***************************************************************************)
(* detectSimpleArbitrage and detectTriangularArbitrage, candidate by        *)
(* candidate, inside one activation (activation 1)                         *)
(***************************************************************************)
\* The token universe of both scans.
Tokens == <<"weth", "usdc", "usdt", "dai">>
NumTokens == Len(Tokens)

\* getTokenPairs: for i, for j = i + 1.
RECURSIVE pairsFrom(_, _)
pairsFrom(i, j) ==
    IF i > NumTokens THEN <<>>
    ELSE IF j > NumTokens THEN pairsFrom(i + 1, i + 2)
    ELSE <<[tokenA |-> Tokens[i], tokenB |-> Tokens[j]]>> \o pairsFrom(i, j + 1)

getTokenPairs == pairsFrom(1, 2)

\* The triple loop testing only neighbours: i # j and j # k.
RECURSIVE triplesFromNeighbours(_, _, _)
triplesFromNeighbours(i, j, k) ==
    IF i > NumTokens THEN <<>>
    ELSE IF j > NumTokens THEN triplesFromNeighbours(i + 1, 1, 1)
    ELSE IF k > NumTokens THEN triplesFromNeighbours(i, j + 1, 1)
    ELSE (IF i # j /\ j # k
          THEN <<[tokenA |-> Tokens[i], tokenB |-> Tokens[j], tokenC |-> Tokens[k]]>>
          ELSE <<>>) \o triplesFromNeighbours(i, j, k + 1)

\* The triples of detectTriangularArbitrage: for i, for j, for k, all distinct.
RECURSIVE triplesFrom(_, _, _)
triplesFrom(i, j, k) ==
    IF i > NumTokens THEN <<>>
    ELSE IF j > NumTokens THEN triplesFrom(i + 1, 1, 1)
    ELSE IF k > NumTokens THEN triplesFrom(i, j + 1, 1)
    ELSE (IF i # j /\ j # k /\ k # i
          THEN <<[tokenA |-> Tokens[i], tokenB |-> Tokens[j], tokenC |-> Tokens[k]]>>
          ELSE <<>>) \o triplesFrom(i, j, k + 1)

tokenTriples == triplesFrom(1, 1, 1)

\* The three getPairInfo calls of checkTriangularArbitrage(A, B, C): the
\* factory and the tokens of each, in the order of the Promise.all.
triangleLegs(t) ==
    <<[factory |-> "uniswapV2", tokenA |-> t.tokenA, tokenB |-> t.tokenB],
      [factory |-> "uniswapV2", tokenA |-> t.tokenB, tokenB |-> t.tokenC],
      [factory |-> "uniswapV2", tokenA |-> t.tokenC, tokenB |-> t.tokenA]>>

batchSize == 5

\* What DEXService.getPairInfo resolves to: the pair's info, or null when the
\* pair is absent or a call failed after its retries (getPairInfo catches).
PairInfoOutcomes == {"info", "absent", "accessFailed"}

\* What the simulations of one direction (or one triple) come to, over all
\* its sizes: some size qualifies; none does; none does and a simulation
\* raised a validation error (caught where it is raised).
SimOutcomes == {"profit", "loss", "mathError"}

NoFault == "none"

\* One element of batch.map(async ...): the pair it works on, where it is
\* suspended, opportunities1, its return value once settled; and, as history,
\* the failure it met and whether any simulation qualified.
Candidate(p) ==
    [pair |-> p, pc |-> "uni", opps1 |-> "empty", result |-> "pending",
     fault |-> NoFault, profitSeen |-> FALSE]

\* Every remaining pair at once, without batches.
batchAtRest(i) ==
    [n \in 1..(Len(getTokenPairs) - i) |-> Candidate(i + n)]

\* tokenPairs.slice(i, i + batchSize), as candidates.
batchAt(i) ==
    [n \in 1..Min(batchSize, Len(getTokenPairs) - i) |-> Candidate(i + n)]

\* pairsSeen and triplesSeen are history: the pairs of the candidates whose
\* batch has been awaited, and the triples handed to checkTriangularArbitrage
\* with the getPairInfo calls made for them.
ScanOff ==
    [stage |-> "off", i |-> 0, cand |-> <<>>, opportunities |-> 0,
     pairsDone |-> 0, k |-> 0, tpc |-> "off", triOpportunities |-> 0,
     triplesDone |-> 0, faults |-> {}, pairsSeen |-> <<>>, triplesSeen |-> <<>>]

\* A pair's processing without its try/catch: the error leaves the candidate.
pairNoCatch(thrown) == [result |-> "empty", thrown |-> thrown]

\* The try/catch around one pair's processing (returns [] on any error).
pairCatch(thrown) == [result |-> "empty", thrown |-> FALSE]

\* The try/catch of checkTriangularArbitrage (returns null on any error).
checkTriangularCatch(thrown) == [result |-> "empty", thrown |-> FALSE]

\* The try/catch around checkTriangularArbitrage in detectTriangularArbitrage.
tripleCatch(thrown) == [thrown |-> FALSE]

Concat(a, b) == IF a = "some" \/ b = "some" THEN "some" ELSE "empty"
AsList(sim) == IF sim = "profit" THEN "some" ELSE "empty"
MathFault(sim) == IF sim = "mathError" THEN {"math"} ELSE {}

\* A scan's promise rejects: detectOpportunities goes to its catch block.
ScanThrows ==
    /\ scan' = [scan EXCEPT !.stage = "aborted"]
    /\ ToCatch(1, hist[1])

ScanFrame ==
    UNCHANGED <<chainBlock, lastProcessedBlock, startupDone, triggers, alive>>

\* `await this.getTokenPairs()` resumes: the first batch is mapped, every
\* candidate calling getPairInfo on Uniswap.
FirstBatch ==
    /\ cyc[1].pc = "simpleScan"
    /\ scan.stage = "off"
    /\ scan' = [ScanOff EXCEPT !.stage = "batch", !.cand = batchAt(0)]
    /\ UNCHANGED <<cyc, hist>>
    /\ ScanFrame

\* A candidate returns: its promise resolves (Promise.all sees it later).
Settle(n, result, fault, profitSeen) ==
    scan' = [scan EXCEPT !.cand[n].pc = "settled",
                         !.cand[n].result = result,
                         !.cand[n].fault = fault,
                         !.cand[n].profitSeen = profitSeen,
                         !.faults = @ \cup (IF fault = NoFault THEN {} ELSE {fault})]

\* A candidate throws: its try/catch makes it return [].
CandidateThrows(n, fault) ==
    LET r == pairCatch(TRUE)
    IN  IF r.thrown
        THEN ScanThrows
        ELSE /\ Settle(n, r.result, fault, scan.cand[n].profitSeen)
             /\ UNCHANGED <<cyc, hist>>

\* getPairInfo on Uniswap settles for candidate n.
CandUniswap(n) ==
    /\ scan.stage = "batch"
    /\ n \in DOMAIN scan.cand
    /\ scan.cand[n].pc = "uni"
    /\ \E o \in PairInfoOutcomes :
        IF o = "info"
        THEN scan' = [scan EXCEPT !.cand[n].pc = "sushi"]
        ELSE Settle(n, "empty", o, FALSE)
    /\ UNCHANGED <<cyc, hist>>
    /\ ScanFrame

\* getPairInfo on SushiSwap settles for candidate n.
CandSushiswap(n) ==
    /\ scan.stage = "batch"
    /\ n \in DOMAIN scan.cand
    /\ scan.cand[n].pc = "sushi"
    /\ \E o \in PairInfoOutcomes :
        IF o = "info"
        THEN scan' = [scan EXCEPT !.cand[n].pc = "dir1"]
        ELSE Settle(n, "empty", o, FALSE)
    /\ UNCHANGED <<cyc, hist>>
    /\ ScanFrame

\* getCurrentGasPrice() of the first checkSimpleArbitrageDirection settles for
\* candidate n; on success the sizes are simulated and the second direction
\* is started.
CandDirection1(n) ==
    /\ scan.stage = "batch"
    /\ n \in DOMAIN scan.cand
    /\ scan.cand[n].pc = "dir1"
    /\ \/ CandidateThrows(n, "accessFailed")
       \/ \E sim \in SimOutcomes :
            /\ scan' = [scan EXCEPT !.cand[n].pc = "dir2",
                                    !.cand[n].opps1 = AsList(sim),
                                    !.cand[n].profitSeen = (sim = "profit"),
                                    !.faults = @ \cup MathFault(sim)]
            /\ UNCHANGED <<cyc, hist>>
    /\ ScanFrame

\* getCurrentGasPrice() of the second checkSimpleArbitrageDirection settles
\* for candidate n; on success the sizes are simulated and the candidate
\* returns [...opportunities1, ...opportunities2].
CandDirection2(n) ==
    /\ scan.stage = "batch"
    /\ n \in DOMAIN scan.cand
    /\ scan.cand[n].pc = "dir2"
    /\ \/ CandidateThrows(n, "accessFailed")
       \/ \E sim \in SimOutcomes :
            /\ scan' = [scan EXCEPT
                          !.cand[n].pc = "settled",
                          !.cand[n].result = Concat(scan.cand[n].opps1, AsList(sim)),
                          !.cand[n].profitSeen = (@ \/ sim = "profit"),
                          !.faults = @ \cup MathFault(sim)]
            /\ UNCHANGED <<cyc, hist>>
    /\ ScanFrame

\* The first triple's three getPairInfo calls are started.
StartTriples(sc) == [sc EXCEPT !.stage = "triples", !.k = 1, !.tpc = "pairs"]

\* `await Promise.all(batchPromises)` resumes: the results are appended, and
\* the next batch is mapped or the scan returns.
BatchDone ==
    /\ scan.stage = "batch"
    /\ \A n \in DOMAIN scan.cand : scan.cand[n].pc = "settled"
    /\ LET found == Cardinality({n \in DOMAIN scan.cand : scan.cand[n].result = "some"})
           sc == [scan EXCEPT !.opportunities = @ + found,
                              !.pairsDone = @ + Len(scan.cand),
                              !.pairsSeen = @ \o [n \in DOMAIN scan.cand |->
                                                    getTokenPairs[scan.cand[n].pair]]]
           next == scan.i + batchSize
       IN  IF next < Len(getTokenPairs)
           THEN /\ scan' = [sc EXCEPT !.i = next, !.cand = batchAt(next)]
                /\ UNCHANGED <<cyc, hist>>
           ELSE /\ scan' = StartTriples([sc EXCEPT !.cand = <<>>])
                /\ FinishSimpleScan(1, IF sc.opportunities > 0 THEN "some" ELSE "empty")
    /\ ScanFrame

\* checkTriangularArbitrage returned `result` for triple k: it is pushed when
\* not null, and the loop goes on to the next triple or the scan returns.
TripleDone(result, newFaults) ==
    LET sc == [scan EXCEPT
                 !.triOpportunities = @ + (IF result = "some" THEN 1 ELSE 0),
                 !.triplesDone = @ + 1,
                 !.triplesSeen = Append(@, [triple |-> tokenTriples[scan.k],
                                            legs |-> triangleLegs(tokenTriples[scan.k])]),
                 !.faults = @ \cup newFaults]
    IN  IF scan.k < Len(tokenTriples)
        THEN /\ scan' = [sc EXCEPT !.k = @ + 1, !.tpc = "pairs"]
             /\ UNCHANGED <<cyc, hist>>
        ELSE /\ scan' = [sc EXCEPT !.stage = "done", !.tpc = "off"]
             /\ FinishTriScan(1, IF sc.triOpportunities > 0 THEN "some" ELSE "empty")

\* checkTriangularArbitrage throws inside its try block.
TripleThrows(fault) ==
    LET r == checkTriangularCatch(TRUE)
    IN  IF r.thrown /\ tripleCatch(TRUE).thrown
        THEN ScanThrows
        ELSE TripleDone("empty", {fault})

\* Promise.all of the three getPairInfo calls of triple k resumes.
TriplePairs ==
    /\ cyc[1].pc = "triScan"
    /\ scan.stage = "triples"
    /\ scan.tpc = "pairs"
    /\ \E o \in PairInfoOutcomes :
        IF o = "info"
        THEN /\ scan' = [scan EXCEPT !.tpc = "gas"]
             /\ UNCHANGED <<cyc, hist>>
        ELSE TripleDone("empty", {o})
    /\ ScanFrame

\* getCurrentGasPrice() of triple k settles; on success the sizes are
\* simulated in order (the token infos of an accepted size come from the
\* cache filled by getPairInfo).
TripleGas ==
    /\ cyc[1].pc = "triScan"
    /\ scan.stage = "triples"
    /\ scan.tpc = "gas"
    /\ \/ TripleThrows("accessFailed")
       \/ \E sim \in SimOutcomes : TripleDone(AsList(sim), MathFault(sim))
    /\ ScanFrame

SCInit == scan = ScanOff

(***************************************************************************)
(* detectSimpleArbitrage at the level of the reads its access-layer calls   *)
(* hand to the rate limiter                                                 *)
(***************************************************************************)
\* The reads one getPairInfo call has in the limiter at once: getPairAddress
\* alone and first (unless the address is cached), then Promise.all of
\* getReserves and the getTokenInfo of each token that is not cached.
PairInfoStarts ==
    {[step |-> "address", reads |-> 1]} \cup {[step |-> "data", reads |-> r] : r \in 1..3}

\* One element of batch.map(async ...): the exchange whose pair it asks for,
\* the step of the access-layer call it awaits, and the reads of that call
\* which are queued or running.
Requester(p, start) ==
    [pair |-> p, dex |-> "uniswap", step |-> start.step, reads |-> start.reads]

\* The candidates of tokenPairs.slice(i, i + batchSize), each calling
\* getPairInfo on Uniswap.
RequestBatches(i) ==
    {[n \in DOMAIN batchAt(i) |-> Requester(batchAt(i)[n].pair, f[n])] :
        f \in [DOMAIN batchAt(i) -> PairInfoStarts]}

\* The candidate's callback returns (with a list or from its catch block).
RequesterReturns(n) ==
    scan' = [scan EXCEPT !.cand[n].step = "settled", !.cand[n].reads = 0]

\* getPairInfo returned the pair's info: on Uniswap the candidate calls
\* getPairInfo on SushiSwap, on SushiSwap it starts
\* checkSimpleArbitrageDirection, which calls getCurrentGasPrice.
PairInfoReturned(n) ==
    IF scan.cand[n].dex = "uniswap"
    THEN \E start \in PairInfoStarts :
            scan' = [scan EXCEPT !.cand[n].dex = "sushiswap",
                                 !.cand[n].step = start.step,
                                 !.cand[n].reads = start.reads]
    ELSE scan' = [scan EXCEPT !.cand[n].step = "gas1", !.cand[n].reads = 1]

\* The read of getPairAddress settles: with the address, or failing (no such
\* pair, or retries exhausted), which getPairInfo turns into null.
AddressRead(n) ==
    /\ scan.stage = "reads"
    /\ n \in DOMAIN scan.cand
    /\ scan.cand[n].step = "address"
    /\ \E ok \in BOOLEAN :
        IF ok
        THEN \E r \in 1..3 : scan' = [scan EXCEPT !.cand[n].step = "data",
                                                  !.cand[n].reads = r]
        ELSE RequesterReturns(n)

\* One read of the Promise.all of getPairInfo settles: when it fails the
\* Promise.all rejects at once and getPairInfo returns null, whatever reads
\* are still under way; when it was the last one getPairInfo returns.
DataRead(n) ==
    /\ scan.stage = "reads"
    /\ n \in DOMAIN scan.cand
    /\ scan.cand[n].step = "data"
    /\ \E ok \in BOOLEAN :
        IF ~ok
        THEN scan' = [scan EXCEPT !.cand[n].step = "settled", !.cand[n].reads = 0,
                                  !.abandoned = @ + scan.cand[n].reads - 1]
        ELSE IF scan.cand[n].reads > 1
        THEN scan' = [scan EXCEPT !.cand[n].reads = @ - 1]
        ELSE PairInfoReturned(n)

\* getCurrentGasPrice() of a checkSimpleArbitrageDirection settles: the sizes
\* are simulated without further reads; a failure ends the candidate.
GasRead(n) ==
    /\ scan.stage = "reads"
    /\ n \in DOMAIN scan.cand
    /\ scan.cand[n].step \in {"gas1", "gas2"}
    /\ \E ok \in BOOLEAN :
        IF ok /\ scan.cand[n].step = "gas1"
        THEN scan' = [scan EXCEPT !.cand[n].step = "gas2"]
        ELSE RequesterReturns(n)

\* A read nobody awaits any more settles.
AbandonedRead ==
    /\ scan.stage = "reads"
    /\ scan.abandoned > 0
    /\ scan' = [scan EXCEPT !.abandoned = @ - 1]

\* `await Promise.all(batchPromises)` resumes: the next batch is mapped, or
\* the loop ends.
NextBatch ==
    /\ scan.stage = "reads"
    /\ scan.cand # <<>>
    /\ \A n \in DOMAIN scan.cand : scan.cand[n].step = "settled"
    /\ LET next == scan.i + batchSize
       IN  IF next < Len(getTokenPairs)
           THEN \E b \in RequestBatches(next) : scan' = [scan EXCEPT !.i = next, !.cand = b]
           ELSE scan' = [scan EXCEPT !.i = next, !.cand = <<>>]

\* detectSimpleArbitrage has mapped its first batch.
BatchInit ==
    \E b \in RequestBatches(0) :
        scan = [stage |-> "reads", i |-> 0, cand |-> b, abandoned |-> 0]

(***************************************************************************)
(* SimulatorService: the swap formulas                                     *)
(***************************************************************************)
MaxAmount == 5      \* amounts are drawn from -1..MaxAmount
MaxDelta == 2       \* the second amount is amountIn + 0..MaxDelta
MaxReserve == 4     \* reserves are drawn from -1..MaxReserve
MaxHops == 2        \* multi-hop paths have 0..MaxHops hops

\* Division of bigints truncates towards zero.
bigintDiv(a, b) ==
    LET q == (IF a < 0 THEN -a ELSE a) \div (IF b < 0 THEN -b ELSE b)
    IN  IF (a < 0) = (b < 0) THEN q ELSE -q

Returned(v) == [ok |-> TRUE, value |-> v, error |-> "none"]
Thrown(e) == [ok |-> FALSE, value |-> 0, error |-> e]
NoResult == [ok |-> FALSE, value |-> 0, error |-> "notCalled"]

\* getAmountOut without the 0.3% fee.
getAmountOutNoFee(amountIn, reserveIn, reserveOut) ==
    IF amountIn <= 0 THEN Thrown("INSUFFICIENT_INPUT_AMOUNT")
    ELSE IF reserveIn <= 0 \/ reserveOut <= 0 THEN Thrown("INSUFFICIENT_LIQUIDITY")
    ELSE Returned(bigintDiv(amountIn * 1000 * reserveOut, reserveIn * 1000 + amountIn * 1000))

\* getAmountOut with the reserves checked before the amount.
getAmountOutReservesFirst(amountIn, reserveIn, reserveOut) ==
    IF reserveIn <= 0 \/ reserveOut <= 0 THEN Thrown("INSUFFICIENT_LIQUIDITY")
    ELSE IF amountIn <= 0 THEN Thrown("INSUFFICIENT_INPUT_AMOUNT")
    ELSE Returned(bigintDiv(amountIn * 997 * reserveOut, reserveIn * 1000 + amountIn * 997))

\* getAmountOut rounding the quotient up.
getAmountOutRoundUp(amountIn, reserveIn, reserveOut) ==
    IF amountIn <= 0 THEN Thrown("INSUFFICIENT_INPUT_AMOUNT")
    ELSE IF reserveIn <= 0 \/ reserveOut <= 0 THEN Thrown("INSUFFICIENT_LIQUIDITY")
    ELSE Returned(bigintDiv(amountIn * 997 * reserveOut + reserveIn * 1000 + amountIn * 997 - 1,
                            reserveIn * 1000 + amountIn * 997))

\* SimulatorService.getAmountOut
getAmountOut(amountIn, reserveIn, reserveOut) ==
    IF amountIn <= 0 THEN Thrown("INSUFFICIENT_INPUT_AMOUNT")
    ELSE IF reserveIn <= 0 \/ reserveOut <= 0 THEN Thrown("INSUFFICIENT_LIQUIDITY")
    ELSE LET amountInWithFee == amountIn * 997
             numerator == amountInWithFee * reserveOut
             denominator == reserveIn * 1000 + amountInWithFee
         IN  Returned(bigintDiv(numerator, denominator))

\* getAmountIn without the final + 1.
getAmountInNoRoundUp(amountOut, reserveIn, reserveOut) ==
    IF amountOut <= 0 THEN Thrown("INSUFFICIENT_OUTPUT_AMOUNT")
    ELSE IF reserveIn <= 0 \/ reserveOut <= 0 THEN Thrown("INSUFFICIENT_LIQUIDITY")
    ELSE IF amountOut >= reserveOut THEN Thrown("INSUFFICIENT_LIQUIDITY")
    ELSE Returned(bigintDiv(reserveIn * amountOut * 1000, (reserveOut - amountOut) * 997))

\* SimulatorService.getAmountIn
getAmountIn(amountOut, reserveIn, reserveOut) ==
    IF amountOut <= 0 THEN Thrown("INSUFFICIENT_OUTPUT_AMOUNT")
    ELSE IF reserveIn <= 0 \/ reserveOut <= 0 THEN Thrown("INSUFFICIENT_LIQUIDITY")
    ELSE IF amountOut >= reserveOut THEN Thrown("INSUFFICIENT_LIQUIDITY")
    ELSE LET numerator == reserveIn * amountOut * 1000
             denominator == (reserveOut - amountOut) * 997
         IN  Returned(bigintDiv(numerator, denominator) + 1)

\* The for-loop of getAmountsOut from hop i on; a hop that throws ends the call.
RECURSIVE amountsOutLoop(_, _, _)
amountsOutLoop(amounts, reserves, i) ==
    IF i > Len(reserves) THEN Returned(amounts)
    ELSE LET amountOut == getAmountOut(amounts[i], reserves[i][1], reserves[i][2])
         IN  IF amountOut.ok
             THEN amountsOutLoop(Append(amounts, amountOut.value), reserves, i + 1)
             ELSE amountOut

\* getAmountsOut starting with [0] instead of [amountIn] when it has hops.
getAmountsOutDropFirst(amountIn, reserves) ==
    IF Len(reserves) = 0 THEN Thrown("Invalid reserves array")
    ELSE LET r == amountsOutLoop(<<amountIn>>, reserves, 1)
         IN  IF r.ok THEN Returned(Tail(r.value)) ELSE r

\* SimulatorService.getAmountsOut
getAmountsOut(amountIn, reserves) ==
    IF Len(reserves) = 0 THEN Thrown("Invalid reserves array")
    ELSE amountsOutLoop(<<amountIn>>, reserves, 1)

\* The for-loop of getAmountsIn from hop i down; amounts holds elements
\* i + 1 .. N + 1 of the result.
RECURSIVE amountsInLoop(_, _, _)
amountsInLoop(amounts, reserves, i) ==
    IF i < 1 THEN Returned(amounts)
    ELSE LET amountIn == getAmountIn(Head(amounts), reserves[i][1], reserves[i][2])
         IN  IF amountIn.ok
             THEN amountsInLoop(<<amountIn.value>> \o amounts, reserves, i - 1)
             ELSE amountIn

\* SimulatorService.getAmountsIn
getAmountsIn(amountOut, reserves) ==
    IF Len(reserves) = 0 THEN Thrown("Invalid reserves array")
    ELSE amountsInLoop(<<amountOut>>, reserves, Len(reserves))

\* The reserve list of a path of n hops back and forth through one pool.
pathReserves(n) ==
    [i \in 1..n |-> IF i % 2 = 1 THEN <<math.reserveIn, math.reserveOut>>
                                 ELSE <<math.reserveOut, math.reserveIn>>]

MathArguments ==
    [amount : (-1)..MaxAmount, delta : 0..MaxDelta,
     reserveIn : (-1)..MaxReserve, reserveOut : (-1)..MaxReserve,
     hops : 0..MaxHops]

\* getAmountOut(amount, reserveIn, reserveOut) is called.
MathGetAmountOut ==
    /\ math.out = NoResult
    /\ math' = [math EXCEPT !.out = getAmountOut(math.amount, math.reserveIn, math.reserveOut)]

\* getAmountOut(amount + delta, reserveIn, reserveOut) is called.
MathGetAmountOutMore ==
    /\ math.outMore = NoResult
    /\ math' = [math EXCEPT !.outMore = getAmountOut(math.amount + math.delta,
                                                      math.reserveIn, math.reserveOut)]

\* getAmountIn(amount, reserveIn, reserveOut) is called.
MathGetAmountIn ==
    /\ math.op # "getAmountIn"
    /\ math' = [math EXCEPT !.op = "getAmountIn",
                            !.res = getAmountIn(math.amount, math.reserveIn, math.reserveOut)]

\* getAmountIn is called with the amount getAmountOut returned.
MathRoundTrip ==
    /\ math.op # "roundTrip"
    /\ math.out.ok
    /\ math' = [math EXCEPT !.op = "roundTrip",
                            !.res = getAmountIn(math.out.value, math.reserveIn, math.reserveOut)]

\* getAmountOut is called with the amount getAmountIn returned for `amount`.
MathSufficientInput ==
    /\ math.op # "sufficientInput"
    /\ LET amountIn == getAmountIn(math.amount, math.reserveIn, math.reserveOut)
       IN  /\ amountIn.ok
           /\ math' = [math EXCEPT !.op = "sufficientInput",
                                   !.res = getAmountOut(amountIn.value, math.reserveIn,
                                                        math.reserveOut)]

\* getAmountsOut(amount, path) is called.
MathGetAmountsOut ==
    /\ math.op # "getAmountsOut"
    /\ math' = [math EXCEPT !.op = "getAmountsOut",
                            !.res = getAmountsOut(math.amount, pathReserves(math.hops))]

\* getAmountsIn(amount, path) is called.
MathGetAmountsIn ==
    /\ math.op # "getAmountsIn"
    /\ math' = [math EXCEPT !.op = "getAmountsIn",
                            !.res = getAmountsIn(math.amount, pathReserves(math.hops))]

MathInit ==
    \E a \in MathArguments :
        math = [amount |-> a.amount, delta |-> a.delta, reserveIn |-> a.reserveIn,
                reserveOut |-> a.reserveOut, hops |-> a.hops,
                out |-> NoResult, outMore |-> NoResult, op |-> "none", res |-> NoResult]

MathParked ==
    math = [amount |-> 1, delta |-> 0, reserveIn |-> 1, reserveOut |-> 1, hops |-> 0,
            out |-> NoResult, outMore |-> NoResult, op |-> "none", res |-> NoResult]

(***************************************************************************)
(* ArbitrageDetector: the candidates of one pair and of one triple         *)
(***************************************************************************)
\* Amounts are counted in units of 10^17 wei (0.1 ether, the smallest trade
\* size), gas prices in units of 10^17 wei per config.trading.gasLimit gas,
\* and prices are carried to PriceScale where the program carries them to
\* 10^18, so that every product of the formulas stays within the integers of
\* TLC.  config.trading.minProfitWei is taken non-negative and
\* config.trading.safetyMargin within [0, 1].
PoolLow == 1000        \* reserves are drawn from {0, PoolLow, PoolHigh}
PoolHigh == 2000
GasHigh == 10          \* gas prices are drawn from {0, GasHigh}
MinProfitHigh == 30    \* minProfitWei is drawn from {0, MinProfitHigh}
PriceScale == 1000     \* the scale of prices and price impacts

\* parseEther("0.1"), parseEther("0.5"), ... of checkSimpleArbitrageDirection
simpleAmounts == <<1, 5, 10, 50, 100>>

\* parseEther("0.1"), parseEther("1"), parseEther("10") of checkTriangularArbitrage
triangularAmounts == <<1, 10, 100>>

\* Math.floor((1 - config.trading.safetyMargin) * 1000) for the margins
\* 1, 0.02 (the default) and 0.
SafetyFactors == {0, 980, 1000}

\* An address string: the account it names and whether it is written in
\* checksum (mixed) case.
Address(name, checksum) == [name |-> name, checksum |-> checksum]

\* String.prototype.toLowerCase on an address string
toLowerCase(a) == [a EXCEPT !.checksum = FALSE]

\* bigint.toString(): the sign and the decimal digits
RECURSIVE digitsOf(_)
digitsOf(n) == IF n < 10 THEN <<n>> ELSE Append(digitsOf(n \div 10), n % 10)

toString(n) == [negative |-> n < 0, digits |-> digitsOf(IF n < 0 THEN -n ELSE n)]

\* BN (ethers.getBigInt) of a decimal string
RECURSIVE valueOf(_)
valueOf(d) == IF d = <<>> THEN 0 ELSE valueOf(SubSeq(d, 1, Len(d) - 1)) * 10 + d[Len(d)]

BN(s) == IF s.negative THEN -valueOf(s.digits) ELSE valueOf(s.digits)

\* config.trading of the run under way
config == arb.config

\* BN(10**18): the argument is a number above Number.MAX_SAFE_INTEGER, and
\* whether the library converts it or rejects it with "overflow" is fixed by
\* the installed library, not by the program: both outcomes are kept.
BNScale == arb.scale

\* PRECISION of utils/bn, the 10^18 scale of calculatePrice
PRECISION == PriceScale

null == [arbitrageType |-> "null"]

\* DEXService.calculatePrice
calculatePrice(reserves, tokenA, tokenB) ==
    IF reserves.reserve0 = 0 \/ reserves.reserve1 = 0 THEN 0
    ELSE IF toLowerCase(tokenA) = toLowerCase(reserves.token0)
         THEN bigintDiv(reserves.reserve1 * PRECISION, reserves.reserve0)
         ELSE bigintDiv(reserves.reserve0 * PRECISION, reserves.reserve1)

\* calculatePriceImpact converting the scale before it looks at its inputs.
calculatePriceImpactScaleFirst(amountIn, amountOut, reserveIn, reserveOut) ==
    IF ~BNScale.ok THEN Thrown(BNScale.error)
    ELSE IF reserveIn <= 0 \/ reserveOut <= 0 \/ amountIn <= 0 THEN Returned(0)
    ELSE LET spotPrice == bigintDiv(reserveOut * BNScale.value, reserveIn)
             executionPrice == bigintDiv(amountOut * BNScale.value, amountIn)
         IN  IF spotPrice <= 0 THEN Returned(0)
             ELSE Returned(bigintDiv((spotPrice - executionPrice) * 10000, spotPrice))

\* SimulatorService.calculatePriceImpact; the result is kept in hundredths of
\* a percent, the bigint the code divides by 100 on return.
calculatePriceImpact(amountIn, amountOut, reserveIn, reserveOut) ==
    IF reserveIn <= 0 \/ reserveOut <= 0 \/ amountIn <= 0 THEN Returned(0)
    ELSE IF ~BNScale.ok THEN Thrown(BNScale.error)
    ELSE LET spotPrice == bigintDiv(reserveOut * BNScale.value, reserveIn)
             executionPrice == bigintDiv(amountOut * BNScale.value, amountIn)
         IN  IF spotPrice <= 0 THEN Returned(0)
             ELSE Returned(bigintDiv((spotPrice - executionPrice) * 10000, spotPrice))

\* The simple simulation with the gas estimate left out of the profit.
simulateSimpleArbitrageGross(amountIn, reservesA, reservesB, gasEstimate) ==
    LET amountB == getAmountOut(amountIn, reservesA[1], reservesA[2])
    IN  IF ~amountB.ok THEN Thrown(amountB.error)
        ELSE
        LET amountOut == getAmountOut(amountB.value, reservesB[1], reservesB[2])
        IN  IF ~amountOut.ok THEN Thrown(amountOut.error)
            ELSE IF ~BNScale.ok THEN Thrown(BNScale.error)
            ELSE Returned([amountOut |-> amountOut.value,
                           profit |-> amountOut.value - amountIn,
                           priceImpactA |-> 0, priceImpactB |-> 0,
                           isProfitable |-> amountOut.value - amountIn > 0])

\* SimulatorService.simulateSimpleArbitrage
simulateSimpleArbitrage(amountIn, reservesA, reservesB, gasEstimate) ==
    LET amountB == getAmountOut(amountIn, reservesA[1], reservesA[2])
    IN  IF ~amountB.ok THEN Thrown(amountB.error)
        ELSE
        LET amountOut == getAmountOut(amountB.value, reservesB[1], reservesB[2])
        IN  IF ~amountOut.ok THEN Thrown(amountOut.error)
            ELSE
            LET grossProfit == amountOut.value - amountIn
                netProfit == grossProfit - gasEstimate
                priceImpactA == calculatePriceImpact(amountIn, amountB.value,
                                                     reservesA[1], reservesA[2])
                priceImpactB == calculatePriceImpact(amountB.value, amountOut.value,
                                                     reservesB[1], reservesB[2])
            IN  IF ~priceImpactA.ok THEN Thrown(priceImpactA.error)
                ELSE IF ~priceImpactB.ok THEN Thrown(priceImpactB.error)
                ELSE Returned([amountOut |-> amountOut.value,
                               profit |-> netProfit,
                               priceImpactA |-> priceImpactA.value,
                               priceImpactB |-> priceImpactB.value,
                               isProfitable |-> netProfit > 0])

\* SimulatorService.simulateTriangularArbitrage
simulateTriangularArbitrage(amountIn, reservesAB, reservesBC, reservesCA, gasEstimate) ==
    LET amountB == getAmountOut(amountIn, reservesAB[1], reservesAB[2])
    IN  IF ~amountB.ok THEN Thrown(amountB.error)
        ELSE
        LET amountC == getAmountOut(amountB.value, reservesBC[1], reservesBC[2])
        IN  IF ~amountC.ok THEN Thrown(amountC.error)
            ELSE
            LET amountOut == getAmountOut(amountC.value, reservesCA[1], reservesCA[2])
            IN  IF ~amountOut.ok THEN Thrown(amountOut.error)
                ELSE
                LET grossProfit == amountOut.value - amountIn
                    netProfit == grossProfit - gasEstimate
                    impactAB == calculatePriceImpact(amountIn, amountB.value,
                                                     reservesAB[1], reservesAB[2])
                    impactBC == calculatePriceImpact(amountB.value, amountC.value,
                                                     reservesBC[1], reservesBC[2])
                    impactCA == calculatePriceImpact(amountC.value, amountOut.value,
                                                     reservesCA[1], reservesCA[2])
                IN  IF ~impactAB.ok THEN Thrown(impactAB.error)
                    ELSE IF ~impactBC.ok THEN Thrown(impactBC.error)
                    ELSE IF ~impactCA.ok THEN Thrown(impactCA.error)
                    ELSE Returned([amountOut |-> amountOut.value,
                                   profit |-> netProfit,
                                   amounts |-> <<amountIn, amountB.value, amountC.value,
                                                 amountOut.value>>,
                                   priceImpacts |-> <<impactAB.value, impactBC.value,
                                                      impactCA.value>>,
                                   isProfitable |-> netProfit > 0])

\* The safety haircut without the margin.
applySafetyMarginNone(profit) == profit

\* profit * BN(Math.floor((1 - safetyMargin) * 1000)) / BN(1000)
applySafetyMargin(profit) == bigintDiv(profit * config.safetyFactor, 1000)

\* ArbitrageDetector.simulateArbitrage
simulateArbitrage(amountIn, buyDexPair, sellDexPair, isTokenAToB, buyDexName, sellDexName, gasEstimate) ==
    LET base == IF isTokenAToB THEN buyDexPair.tokenA ELSE buyDexPair.tokenB
        quote == IF isTokenAToB THEN buyDexPair.tokenB ELSE buyDexPair.tokenA
        baseToken == base.address
        quoteToken == quote.address
        reservesA ==
            IF toLowerCase(buyDexPair.reserves.token0) = toLowerCase(baseToken)
            THEN <<buyDexPair.reserves.reserve0, buyDexPair.reserves.reserve1>>
            ELSE <<buyDexPair.reserves.reserve1, buyDexPair.reserves.reserve0>>
        reservesB ==
            IF toLowerCase(sellDexPair.reserves.token0) = toLowerCase(quoteToken)
            THEN <<sellDexPair.reserves.reserve0, sellDexPair.reserves.reserve1>>
            ELSE <<sellDexPair.reserves.reserve1, sellDexPair.reserves.reserve0>>
        result == simulateSimpleArbitrage(amountIn, reservesA, reservesB, gasEstimate)
    IN  IF ~result.ok THEN null
        ELSE IF ~result.value.isProfitable THEN null
        ELSE
        LET adjustedProfit == applySafetyMargin(result.value.profit)
        IN  IF adjustedProfit <= 0 THEN null
            ELSE [baseToken |-> baseToken,
                  quoteToken |-> quoteToken,
                  baseTokenSymbol |-> base.symbol,
                  quoteTokenSymbol |-> quote.symbol,
                  buyDex |-> buyDexName,
                  sellDex |-> sellDexName,
                  amountIn |-> toString(amountIn),
                  amountOut |-> toString(result.value.amountOut),
                  estimatedProfit |-> toString(result.value.profit),
                  gasEstimate |-> toString(gasEstimate),
                  netProfit |-> toString(adjustedProfit),
                  buyPrice |-> toString(calculatePrice(buyDexPair.reserves,
                                                       baseToken, quoteToken)),
                  sellPrice |-> toString(calculatePrice(sellDexPair.reserves,
                                                        baseToken, quoteToken)),
                  priceImpact |-> Max(result.value.priceImpactA,
                                      result.value.priceImpactB),
                  arbitrageType |-> "SIMPLE"]

\* The for-loop of checkSimpleArbitrageDirection from the i-th size on.
RECURSIVE directionLoop(_, _, _, _, _, _)
directionLoop(i, buyDexPair, sellDexPair, buyDexName, sellDexName, gasEstimate) ==
    IF i > Len(simpleAmounts) THEN <<>>
    ELSE
    LET amountIn == simpleAmounts[i]
        resultAB == simulateArbitrage(amountIn, buyDexPair, sellDexPair, TRUE,
                                      buyDexName, sellDexName, gasEstimate)
        resultBA == simulateArbitrage(amountIn, buyDexPair, sellDexPair, FALSE,
                                      buyDexName, sellDexName, gasEstimate)
        pushed(r) == IF r # null /\ BN(r.netProfit) > config.minProfitWei
                     THEN <<r>> ELSE <<>>
    IN  pushed(resultAB) \o pushed(resultBA)
        \o directionLoop(i + 1, buyDexPair, sellDexPair, buyDexName, sellDexName,
                         gasEstimate)

\* checkSimpleArbitrageDirection leaving the loop at the first opportunity.
checkSimpleArbitrageDirectionFirstOnly(buyDexPair, sellDexPair, buyDexName, sellDexName, gasPrice) ==
    LET all == directionLoop(1, buyDexPair, sellDexPair, buyDexName, sellDexName,
                             gasPrice)
    IN  IF all = <<>> THEN <<>> ELSE <<all[1]>>

\* ArbitrageDetector.checkSimpleArbitrageDirection, given the gas price that
\* getCurrentGasPrice returned.
checkSimpleArbitrageDirection(buyDexPair, sellDexPair, buyDexName, sellDexName, gasPrice) ==
    LET gasEstimate == gasPrice
    IN  directionLoop(1, buyDexPair, sellDexPair, buyDexName, sellDexName,
                      gasEstimate)

\* ArbitrageDetector.getDirectionalReserves
getDirectionalReserves(pairInfo, tokenIn, tokenOut) ==
    IF toLowerCase(pairInfo.reserves.token0) = toLowerCase(tokenIn)
    THEN <<pairInfo.reserves.reserve0, pairInfo.reserves.reserve1>>
    ELSE <<pairInfo.reserves.reserve1, pairInfo.reserves.reserve0>>

\* A token path that does not return to its first token.
tokenPathOpen(tokenA, tokenB, tokenC) == <<tokenA, tokenB, tokenC>>

\* tokenPath of a triangular opportunity
tokenPath(tokenA, tokenB, tokenC) == <<tokenA, tokenB, tokenC, tokenA>>

\* The body of the for-loop of checkTriangularArbitrage for one size: the
\* opportunity it returns, or null when the loop goes on.  The three
\* getTokenInfo calls are answered from the token cache, which getPairInfo
\* filled for the three pairs.
checkTriangularSize(amountIn, tokenA, tokenB, tokenC, pairs, gasEstimate) ==
    LET reservesAB == getDirectionalReserves(pairs[1], tokenA, tokenB)
        reservesBC == getDirectionalReserves(pairs[2], tokenB, tokenC)
        reservesCA == getDirectionalReserves(pairs[3], tokenC, tokenA)
        result == simulateTriangularArbitrage(amountIn, reservesAB, reservesBC,
                                              reservesCA, gasEstimate)
    IN  IF ~result.ok THEN null
        ELSE IF ~result.value.isProfitable THEN null
        ELSE
        LET adjustedProfit == applySafetyMargin(result.value.profit)
            tokenAInfo == pairs[1].tokenA
        IN  IF ~(adjustedProfit > config.minProfitWei) THEN null
            ELSE [baseToken |-> tokenA,
                  quoteToken |-> tokenA,
                  baseTokenSymbol |-> tokenAInfo.symbol,
                  quoteTokenSymbol |-> tokenAInfo.symbol,
                  buyDex |-> "Uniswap V2",
                  sellDex |-> "Uniswap V2",
                  amountIn |-> toString(amountIn),
                  amountOut |-> toString(result.value.amountOut),
                  estimatedProfit |-> toString(result.value.profit),
                  gasEstimate |-> toString(gasEstimate),
                  netProfit |-> toString(adjustedProfit),
                  buyPrice |-> toString(0),
                  sellPrice |-> toString(0),
                  priceImpact |-> Max(result.value.priceImpacts[1],
                                      Max(result.value.priceImpacts[2],
                                          result.value.priceImpacts[3])),
                  arbitrageType |-> "TRIANGULAR",
                  intermediateToken |-> tokenB,
                  tokenPath |-> tokenPath(tokenA, tokenB, tokenC),
                  amounts |-> [k \in 1..Len(result.value.amounts) |->
                                  toString(result.value.amounts[k])],
                  priceImpacts |-> result.value.priceImpacts]

\* The loop of checkTriangularArbitrage going on to the next size after an
\* opportunity was found.
triangularLoopStepNoReturn(tri, amountIn, out) ==
    LET seen == Append(tri.simulated, amountIn)
        found == IF out # null THEN out ELSE tri.result
    IN  IF tri.i = Len(triangularAmounts)
        THEN [tri EXCEPT !.pc = "done", !.simulated = seen, !.result = found]
        ELSE [tri EXCEPT !.i = tri.i + 1, !.simulated = seen, !.result = found]

\* One turn of the for-loop of checkTriangularArbitrage: return the
\* opportunity, go on to the next size, or return null after the last one.
triangularLoopStep(tri, amountIn, out) ==
    LET seen == Append(tri.simulated, amountIn)
    IN  IF out # null
        THEN [tri EXCEPT !.pc = "done", !.simulated = seen, !.result = out]
        ELSE IF tri.i = Len(triangularAmounts)
        THEN [tri EXCEPT !.pc = "done", !.simulated = seen]
        ELSE [tri EXCEPT !.i = tri.i + 1, !.simulated = seen]

\* The accounts of the tokens, in the order of their addresses.
tokenNames == <<"A", "B", "C">>

rank(name) == CHOOSE k \in 1..Len(tokenNames) : tokenNames[k] = name

\* DEXService.getReserves of the pair contract of x and y: token0 is the token
\* of the lower address, and the contract answers in checksum case.
getReserves(x, y, pool, ascending) ==
    LET xFirst == (rank(x) < rank(y)) = ascending
    IN  [reserve0 |-> pool[1],
         reserve1 |-> pool[2],
         token0 |-> Address(IF xFirst THEN x ELSE y, TRUE),
         token1 |-> Address(IF xFirst THEN y ELSE x, TRUE)]

\* DEXService.getPairInfo of a pair that exists
getPairInfo(tokenA, tokenB, reserves) ==
    [tokenA |-> [address |-> tokenA, symbol |-> tokenA.name],
     tokenB |-> [address |-> tokenB, symbol |-> tokenB.name],
     reserves |-> reserves]

\* The reserves of a pair contract; an empty side is reserve1, which is the
\* input side or the output side of a trade according to the token order.
Pools == {PoolLow, PoolHigh} \X {0, PoolLow, PoolHigh}

GasPrices == {0, GasHigh}

TradingConfigs == [minProfitWei : {0, MinProfitHigh}, safetyFactor : SafetyFactors]

NoRun == [done |-> FALSE, gasEstimate |-> 0, opportunities |-> <<>>]

TriIdle == [pc |-> "idle", i |-> 1, gasEstimate |-> 0, simulated |-> <<>>,
            result |-> null]

\* No direct call of the simulator is recorded.
NoCall == [op |-> "none", amountIn |-> 0, reserves |-> <<>>, gasEstimate |-> 0,
           res |-> NoResult]

\* The pair (A, B) on both exchanges, or the triple (A, B, C) on Uniswap, as
\* getPairInfo returned them.
SimInit ==
    \E c \in TradingConfigs, scale \in {Returned(PriceScale), Thrown("overflow")},
       checksum \in BOOLEAN, ascending \in BOOLEAN :
        LET t == [k \in 1..Len(tokenNames) |-> Address(tokenNames[k], checksum)]
            pair(x, y, pool) ==
                getPairInfo(t[x], t[y],
                            getReserves(tokenNames[x], tokenNames[y], pool, ascending))
        IN  \/ \E uni \in Pools, sushi \in Pools :
                   arb = [kind |-> "pair", config |-> c, scale |-> scale, tokens |-> t,
                          pairs |-> <<pair(1, 2, uni), pair(1, 2, sushi)>>,
                          direction |-> <<NoRun, NoRun>>, tri |-> TriIdle,
                          call |-> NoCall]
            \/ \E ab \in Pools, bc \in Pools, ca \in Pools :
                   arb = [kind |-> "triple", config |-> c, scale |-> scale, tokens |-> t,
                          pairs |-> <<pair(1, 2, ab), pair(2, 3, bc), pair(3, 1, ca)>>,
                          direction |-> <<NoRun, NoRun>>, tri |-> TriIdle,
                          call |-> NoCall]

SimParked ==
    arb = [kind |-> "none", config |-> [minProfitWei |-> 0, safetyFactor |-> 1000],
           scale |-> Returned(PriceScale), tokens |-> <<>>, pairs |-> <<>>,
           direction |-> <<NoRun, NoRun>>, tri |-> TriIdle,
                          call |-> NoCall]

\* checkSimpleArbitrageDirection(uniswapPair, sushiPair, ...) runs: the gas
\* price is fetched and the five sizes are tried in both token directions.
DirectionUniswapToSushiswap ==
    /\ arb.kind = "pair"
    /\ ~arb.direction[1].done
    /\ \E gasPrice \in GasPrices :
        arb' = [arb EXCEPT !.direction[1] =
                   [done |-> TRUE, gasEstimate |-> gasPrice,
                    opportunities |->
                        checkSimpleArbitrageDirection(arb.pairs[1], arb.pairs[2],
                                                      "Uniswap V2", "SushiSwap",
                                                      gasPrice)]]

\* checkSimpleArbitrageDirection(sushiPair, uniswapPair, ...) runs.
DirectionSushiswapToUniswap ==
    /\ arb.kind = "pair"
    /\ ~arb.direction[2].done
    /\ \E gasPrice \in GasPrices :
        arb' = [arb EXCEPT !.direction[2] =
                   [done |-> TRUE, gasEstimate |-> gasPrice,
                    opportunities |->
                        checkSimpleArbitrageDirection(arb.pairs[2], arb.pairs[1],
                                                      "SushiSwap", "Uniswap V2",
                                                      gasPrice)]]

\* checkTriangularArbitrage has its three pairs and fetches the gas price:
\* the estimate is for three times the gas limit.
TriangularStart ==
    /\ arb.kind = "triple"
    /\ arb.tri.pc = "idle"
    /\ \E gasPrice \in GasPrices :
        arb' = [arb EXCEPT !.tri = [TriIdle EXCEPT !.pc = "loop",
                                                   !.gasEstimate = gasPrice * 3]]

\* One turn of the for-loop of checkTriangularArbitrage.
TriangularSize ==
    /\ arb.kind = "triple"
    /\ arb.tri.pc = "loop"
    /\ LET amountIn == triangularAmounts[arb.tri.i]
           out == checkTriangularSize(amountIn, arb.tokens[1], arb.tokens[2],
                                      arb.tokens[3], arb.pairs, arb.tri.gasEstimate)
       IN  arb' = [arb EXCEPT !.tri = triangularLoopStep(arb.tri, amountIn, out)]

\* The sizes a caller passes to the simulator: those of the detector, and 0.
CallAmounts == {0} \cup {simpleAmounts[k] : k \in 1..Len(simpleAmounts)}

\* A caller holds an amount, three reserve pairs and a gas estimate.
SimulatorInit ==
    \E scale \in {Returned(PriceScale), Thrown("overflow")}, amountIn \in CallAmounts,
       r1 \in Pools, r2 \in Pools, r3 \in Pools, gasEstimate \in GasPrices :
        arb = [kind |-> "call", config |-> [minProfitWei |-> 0, safetyFactor |-> 1000],
               scale |-> scale, tokens |-> <<>>, pairs |-> <<>>,
               direction |-> <<NoRun, NoRun>>, tri |-> TriIdle,
               call |-> [NoCall EXCEPT !.amountIn = amountIn,
                                       !.reserves = <<<<r1[1], r1[2]>>, <<r2[1], r2[2]>>,
                                                      <<r3[1], r3[2]>>>>,
                                       !.gasEstimate = gasEstimate]]

\* simulateSimpleArbitrage(amountIn, reservesA, reservesB, gasEstimate) is called.
SimulateSimple ==
    /\ arb.kind = "call"
    /\ arb.call.op # "simulateSimpleArbitrage"
    /\ arb' = [arb EXCEPT !.call.op = "simulateSimpleArbitrage",
                          !.call.res = simulateSimpleArbitrage(arb.call.amountIn,
                                           arb.call.reserves[1], arb.call.reserves[2],
                                           arb.call.gasEstimate)]

\* simulateTriangularArbitrage(amountIn, reservesAB, reservesBC, reservesCA,
\* gasEstimate) is called.
SimulateTriangular ==
    /\ arb.kind = "call"
    /\ arb.call.op # "simulateTriangularArbitrage"
    /\ arb' = [arb EXCEPT !.call.op = "simulateTriangularArbitrage",
                          !.call.res = simulateTriangularArbitrage(arb.call.amountIn,
                                           arb.call.reserves[1], arb.call.reserves[2],
                                           arb.call.reserves[3], arb.call.gasEstimate)]

\* ---- SimulatorService.findOptimalAmount ----
DefaultIterations == 20

MaxSearch == 40        \* the search ranges end at 0, 3, 10 or MaxSearch

\* The bounds of the ranges searched, and the iteration counts passed (the
\* default stands for a call without the argument).
SearchMins == {-1, 0, 1, 5}
SearchMaxs == {0, 3, 10, MaxSearch}
SearchIterations == {0, 1, 3, DefaultIterations}

\* A comparison that takes every simulated amount as the best one.
improvesAlways(profit, bestProfit) == TRUE

\* result.profit > bestProfit
improves(profit, bestProfit) == profit > bestProfit

\* The for loop of findOptimalAmount from iteration i on; `evaluated` is
\* history: the midpoints simulated so far with what the simulation came to.
RECURSIVE findOptimalLoop(_, _, _, _, _, _, _, _, _, _)
findOptimalLoop(i, left, right, bestAmount, bestProfit, evaluated, reservesA, reservesB, gasEstimate, iterations) ==
    IF i >= iterations
    THEN [amount |-> bestAmount, profit |-> bestProfit, evaluated |-> evaluated]
    ELSE
    LET mid == bigintDiv(left + right, 2)
        result == simulateSimpleArbitrage(mid, reservesA, reservesB, gasEstimate)
        better == result.ok /\ improves(result.value.profit, bestProfit)
        newProfit == IF better THEN result.value.profit ELSE bestProfit
        newAmount == IF better THEN mid ELSE bestAmount
        newLeft == IF result.ok /\ result.value.isProfitable THEN mid + 1 ELSE left
        newRight == IF result.ok /\ result.value.isProfitable THEN right ELSE mid - 1
        seen == Append(evaluated, [mid |-> mid, result |-> result])
    IN  IF newLeft >= newRight
        THEN [amount |-> newAmount, profit |-> newProfit, evaluated |-> seen]
        ELSE findOptimalLoop(i + 1, newLeft, newRight, newAmount, newProfit, seen,
                             reservesA, reservesB, gasEstimate, iterations)

\* SimulatorService.findOptimalAmount: left = minAmount, right = maxAmount,
\* bestAmount = minAmount, bestProfit = BN(-1).
findOptimalAmount(minAmount, maxAmount, reservesA, reservesB, gasEstimate, iterations) ==
    findOptimalLoop(0, minAmount, maxAmount, minAmount, -1, <<>>,
                    reservesA, reservesB, gasEstimate, iterations)

NoSearch == [amount |-> 0, profit |-> 0, evaluated |-> <<>>]

\* A caller holds a range, two reserve pairs, a gas estimate and an
\* iteration count.
SearchInit ==
    \E scale \in {Returned(PriceScale), Thrown("overflow")},
       minAmount \in SearchMins, maxAmount \in SearchMaxs,
       r1 \in Pools, r2 \in Pools, gasEstimate \in GasPrices,
       iterations \in SearchIterations :
        arb = [kind |-> "search", config |-> [minProfitWei |-> 0, safetyFactor |-> 1000],
               scale |-> scale, tokens |-> <<>>, pairs |-> <<>>,
               direction |-> <<NoRun, NoRun>>, tri |-> TriIdle,
               call |-> [op |-> "none", minAmount |-> minAmount, maxAmount |-> maxAmount,
                         reserves |-> <<<<r1[1], r1[2]>>, <<r2[1], r2[2]>>>>,
                         gasEstimate |-> gasEstimate, iterations |-> iterations,
                         res |-> NoSearch]]

\* findOptimalAmount(minAmount, maxAmount, reservesA, reservesB, gasEstimate,
\* iterations) is called.
FindOptimalAmount ==
    /\ arb.kind = "search"
    /\ arb.call.op = "none"
    /\ arb' = [arb EXCEPT !.call.op = "findOptimalAmount",
                          !.call.res = findOptimalAmount(arb.call.minAmount,
                                           arb.call.maxAmount, arb.call.reserves[1],
                                           arb.call.reserves[2], arb.call.gasEstimate,
                                           arb.call.iterations)]

\* The detector idle, with either behaviour of the library.
SimLibrary ==
    \E scale \in {Returned(PriceScale), Thrown("overflow")} :
        arb = [kind |-> "none", config |-> [minProfitWei |-> 0, safetyFactor |-> 1000],
               scale |-> scale, tokens |-> <<>>, pairs |-> <<>>,
               direction |-> <<NoRun, NoRun>>, tri |-> TriIdle,
                          call |-> NoCall]

\* calculatePriceImpact(amount, amountOut, reserveIn, reserveOut) is called.
MathPriceImpact ==
    /\ math.op # "calculatePriceImpact"
    /\ \E amountOut \in (-1)..MaxDelta :
        math' = [math EXCEPT
                    !.op = "calculatePriceImpact",
                    !.res = [amountOut |-> amountOut,
                             impact |-> calculatePriceImpact(math.amount, amountOut,
                                                             math.reserveIn,
                                                             math.reserveOut)]]

(***************************************************************************)
(* DEXService: how each method reaches the network                         *)
(***************************************************************************)
MaxAccessCalls == 2    \* calls of access-layer methods in one behaviour

AccessMethods ==
    {"getPairAddress", "getReserves", "getTokenInfo", "getCurrentBlockNumber",
     "getCurrentGasPrice", "getAllPairs"}

\* The methods that answer from a cache when they can.
CachedMethods == {"getPairAddress", "getTokenInfo"}

\* The contract and provider calls of a method, in the order of its body.
networkReads(method) ==
    CASE method = "getPairAddress" -> <<"getPair">>
      [] method = "getReserves" -> <<"getReserves", "token0", "token1">>
      [] method = "getTokenInfo" -> <<"symbol", "decimals">>
      [] method = "getCurrentBlockNumber" -> <<"getBlockNumber">>
      [] method = "getCurrentGasPrice" -> <<"getFeeData">>
      [] method = "getAllPairs" -> <<"allPairsLength", "allPairs">>

\* A method that calls the contract directly.
wrappersNone(method, read) == <<>>

\* What a read is nested in, outermost first: rateLimiter.execute around
\* RetryHandler.withExponentialBackoff; getAllPairs hands each allPairs(j) to
\* rateLimiter.execute once more, inside both.
wrappers(method, read) ==
    IF read = "allPairs" THEN <<"execute", "retry", "execute">>
    ELSE <<"execute", "retry">>

NoAccess ==
    [pc |-> "idle", method |-> "none", k |-> 0, stack |-> <<>>, attempt |-> 0,
     count |-> 0, reads |-> {}]

\* The read the call in progress is at.
currentRead == networkReads(access.method)[access.k]

\* A method of the access layer is called; a cached answer returns at once.
AccessCall(method) ==
    /\ access.pc \in {"idle", "returned", "thrown"}
    /\ access.count < MaxAccessCalls
    /\ \E hit \in {FALSE} \cup {method \in CachedMethods} :
        access' = [access EXCEPT !.pc = IF hit THEN "returned" ELSE "run",
                                 !.method = method, !.k = 1, !.stack = <<>>,
                                 !.attempt = 0, !.count = @ + 1]

\* The next wrapper a call has to enter before its current read, if any.
nextWrapper ==
    LET w == wrappers(access.method, currentRead)
    IN  IF Len(access.stack) < Len(w) THEN w[Len(access.stack) + 1] ELSE "none"

Top == IF access.stack = <<>> THEN "none" ELSE access.stack[Len(access.stack)]

\* rateLimiter.execute(fn): fn is queued.
SubmitRead ==
    /\ access.pc = "run"
    /\ Top # "queued"
    /\ nextWrapper = "execute"
    /\ access' = [access EXCEPT !.stack = Append(@, "queued")]

\* processQueue shifts the entry and calls its fn; it does so only when it is
\* not awaiting the fn of an earlier entry.
Admit ==
    /\ access.pc = "run"
    /\ Top = "queued"
    /\ \A f \in DOMAIN access.stack : access.stack[f] # "admitted"
    /\ access' = [access EXCEPT !.stack[Len(access.stack)] = "admitted"]

\* RetryHandler.withExponentialBackoff(fn) starts its first attempt.
WithExponentialBackoff ==
    /\ access.pc = "run"
    /\ Top # "queued"
    /\ nextWrapper = "retry"
    /\ access' = [access EXCEPT !.stack = Append(@, "retry"), !.attempt = 0]

\* The contract or provider call is made.
StartRead ==
    /\ access.pc = "run"
    /\ Top # "queued"
    /\ nextWrapper = "none"
    /\ access' = [access EXCEPT
                    !.pc = "reading",
                    !.reads = @ \cup
                        {[method |-> access.method, read |-> currentRead,
                          admitted |-> \E f \in DOMAIN access.stack : access.stack[f] = "admitted",
                          inRetry |-> \E f \in DOMAIN access.stack : access.stack[f] = "retry",
                          retried |-> access.attempt > 0]}]

\* The read answers: the body goes on to its next read, or the method returns.
ReadReturns ==
    /\ access.pc = "reading"
    /\ IF access.k < Len(networkReads(access.method))
       THEN access' = [access EXCEPT !.pc = "run", !.k = @ + 1]
       ELSE access' = [access EXCEPT !.pc = "returned", !.stack = <<>>]

\* The read fails: getAllPairs catches and returns []; elsewhere the error
\* reaches the retry wrapper, which runs the body again unless this was the
\* last attempt or the error is not retryable; outside a wrapper it reaches
\* the caller.
ReadFails ==
    /\ access.pc = "reading"
    /\ \E retryable \in BOOLEAN :
        IF access.method = "getAllPairs"
        THEN access' = [access EXCEPT !.pc = "returned", !.stack = <<>>]
        ELSE IF access.stack = <<>> \/ access.attempt = DefaultMaxRetries \/ ~retryable
        THEN access' = [access EXCEPT !.pc = "thrown", !.stack = <<>>]
        ELSE access' = [access EXCEPT !.pc = "run", !.k = 1, !.attempt = @ + 1]

(***************************************************************************)
(* DEXService: the token cache                                             *)
(***************************************************************************)
\* The symbol and decimals of a token contract are taken not to change while
\* the program runs.
MaxTokenCalls == 4     \* getTokenInfo is called at most MaxTokenCalls times

TokenAddresses == {"A", "B"}

NoTokenInfo == [address |-> "none", symbol |-> "none", decimals |-> 0]

\* What token.symbol() and token.decimals() answer for an address.
tokenContract(tokenAddress) ==
    [address |-> tokenAddress, symbol |-> tokenAddress, decimals |-> 18]

\* A cache lookup that never finds an entry.
tokenCacheHasNever(tokenAddress) == FALSE

\* this.tokenCache.has(tokenAddress)
tokenCacheHas(tokenAddress) == tok.tokenCache[tokenAddress] # NoTokenInfo

EmptyTokenCache == [a \in TokenAddresses |-> NoTokenInfo]

\* getTokenInfo(tokenAddress) is called: a cached entry is returned at once,
\* otherwise the fetch is handed to the rate limiter.
GetTokenInfo(tokenAddress) ==
    /\ Len(tok.calls) < MaxTokenCalls
    /\ LET hit == tokenCacheHas(tokenAddress)
           call == [address |-> tokenAddress,
                    pc |-> IF hit THEN "returned" ELSE "submitted",
                    submitted |-> ~hit,
                    result |-> IF hit THEN tok.tokenCache[tokenAddress] ELSE NoTokenInfo,
                    afterSuccess |-> tok.succeeded[tokenAddress] # NoTokenInfo,
                    expected |-> tok.succeeded[tokenAddress],
                    cacheBefore |-> tok.tokenCache,
                    cacheAfter |-> tok.tokenCache,
                    clearsAtCall |-> tok.clears,
                    wrote |-> FALSE,
                    clearsAtWrite |-> 0]
       IN  tok' = [tok EXCEPT !.calls = Append(tok.calls, call)]

\* The fetch of a submitted call succeeds: the entry is cached and returned.
TokenFetchSucceeds(i) ==
    /\ i \in 1..Len(tok.calls)
    /\ tok.calls[i].pc = "submitted"
    /\ LET tokenAddress == tok.calls[i].address
           tokenInfo == tokenContract(tokenAddress)
           cache == [tok.tokenCache EXCEPT ![tokenAddress] = tokenInfo]
       IN  tok' = [tok EXCEPT !.tokenCache = cache,
                              !.succeeded[tokenAddress] = tokenInfo,
                              !.calls[i].pc = "returned",
                              !.calls[i].result = tokenInfo,
                              !.calls[i].cacheBefore = tok.tokenCache,
                              !.calls[i].cacheAfter = cache,
                              !.calls[i].wrote = TRUE,
                              !.calls[i].clearsAtWrite = tok.clears]

\* The fetch of a submitted call fails for good: the error is rethrown.
TokenFetchFails(i) ==
    /\ i \in 1..Len(tok.calls)
    /\ tok.calls[i].pc = "submitted"
    /\ tok' = [tok EXCEPT !.calls[i].pc = "thrown",
                          !.calls[i].cacheBefore = tok.tokenCache,
                          !.calls[i].cacheAfter = tok.tokenCache]

(***************************************************************************)
(* DEXService: the pair-address cache                                      *)
(***************************************************************************)
MaxPairCalls == 3      \* getPairAddress is called at most MaxPairCalls times

PairFactories == {"uniswapV2", "sushiswap"}

\* The token arguments as the callers spell them: A in checksum case and in
\* lower case, B in checksum case.
PairTokens == {Address("A", TRUE), Address("A", FALSE), Address("B", TRUE)}

ZeroAddress == [factory |-> "none", tokens |-> {}]

\* What factory.getPair(tokenA, tokenB) answers: the one pair contract of the
\* two tokens, whatever their order and spelling, and the zero address for a
\* pair that does not exist.
getPair(factoryAddress, tokenA, tokenB) ==
    IF tokenA.name = tokenB.name
    THEN ZeroAddress
    ELSE [factory |-> factoryAddress, tokens |-> {tokenA.name, tokenB.name}]

\* A key that puts the two tokens in one order.
cacheKeySorted(factoryAddress, tokenA, tokenB) ==
    IF rank(tokenA.name) <= rank(tokenB.name)
    THEN <<factoryAddress, toLowerCase(tokenA), toLowerCase(tokenB)>>
    ELSE <<factoryAddress, toLowerCase(tokenB), toLowerCase(tokenA)>>

\* `${factoryAddress}-${tokenA.toLowerCase()}-${tokenB.toLowerCase()}`
cacheKey(factoryAddress, tokenA, tokenB) ==
    <<factoryAddress, toLowerCase(tokenA), toLowerCase(tokenB)>>

\* this.pairAddressCache.has(key), .get(key) and .set(key, address) on a
\* cache held as the set of its entries.
pairCacheHas(key) == \E e \in pairCache.pairAddressCache : e.key = key
pairCacheGet(key) == (CHOOSE e \in pairCache.pairAddressCache : e.key = key).address
pairCacheSet(key, address) ==
    {e \in pairCache.pairAddressCache : e.key # key} \cup {[key |-> key, address |-> address]}

\* getPairAddress(factoryAddress, tokenA, tokenB) is called: a cached address
\* is returned at once, otherwise the lookup is handed to the rate limiter
\* (`submitted`), and the call returns only with the address the network
\* answered (`wrote`).
\* `step` counts the events of the cache, so that calls and writes can be
\* told apart in time; `clears` counts the clearCaches calls.
GetPairAddress(factoryAddress, tokenA, tokenB) ==
    /\ Len(pairCache.calls) < MaxPairCalls
    /\ LET key == cacheKey(factoryAddress, tokenA, tokenB)
           hit == pairCacheHas(key)
           call == [factory |-> factoryAddress, tokenA |-> tokenA, tokenB |-> tokenB,
                    pc |-> IF hit THEN "returned" ELSE "submitted",
                    submitted |-> ~hit,
                    result |-> IF hit THEN pairCacheGet(key) ELSE ZeroAddress,
                    calledAt |-> pairCache.step + 1,
                    clearsAtCall |-> pairCache.clears,
                    wrote |-> FALSE,
                    wroteAt |-> 0,
                    clearsAtWrite |-> 0,
                    sizeAfter |-> 0]
       IN  pairCache' = [pairCache EXCEPT !.calls = Append(@, call), !.step = @ + 1]

\* The lookup of a submitted call returns a pair's address, at once or after
\* retries: the address is cached and returned.
PairLookupSucceeds(i) ==
    /\ i \in 1..Len(pairCache.calls)
    /\ pairCache.calls[i].pc = "submitted"
    /\ LET c == pairCache.calls[i]
           address == getPair(c.factory, c.tokenA, c.tokenB)
           cache == pairCacheSet(cacheKey(c.factory, c.tokenA, c.tokenB), address)
       IN  /\ address # ZeroAddress
           /\ pairCache' = [pairCache EXCEPT !.pairAddressCache = cache,
                                             !.step = @ + 1,
                                             !.calls[i].pc = "returned",
                                             !.calls[i].result = address,
                                             !.calls[i].wrote = TRUE,
                                             !.calls[i].wroteAt = pairCache.step + 1,
                                             !.calls[i].clearsAtWrite = pairCache.clears,
                                             !.calls[i].sizeAfter = Cardinality(cache)]

\* The lookup of a submitted call fails for good (the zero address was
\* answered, or the reads failed): the error is rethrown, nothing is cached.
PairLookupFails(i) ==
    /\ i \in 1..Len(pairCache.calls)
    /\ pairCache.calls[i].pc = "submitted"
    /\ pairCache' = [pairCache EXCEPT !.step = @ + 1, !.calls[i].pc = "thrown"]

\* DEXService.clearCaches
ClearCaches ==
    /\ tok.tokenCache # EmptyTokenCache \/ pairCache.pairAddressCache # {}
    /\ tok' = [tok EXCEPT !.tokenCache = EmptyTokenCache,
                          !.succeeded = EmptyTokenCache,
                          !.clears = @ + 1]
    /\ pairCache' = [pairCache EXCEPT !.pairAddressCache = {},
                                      !.step = @ + 1,
                                      !.clears = @ + 1]

TokInit ==
    /\ tok = [tokenCache |-> EmptyTokenCache, succeeded |-> EmptyTokenCache,
              calls |-> <<>>, clears |-> 0]
    /\ access = NoAccess
    /\ pairCache = [pairAddressCache |-> {}, calls |-> <<>>, step |-> 0, clears |-> 0]

(***************************************************************************)
(* Specifications                                                          *)
(***************************************************************************)
InitLimiter == RLInit /\ RTParked /\ WKInit /\ SCInit /\ MathParked /\ SimParked /\ TokInit

NextLimiter ==
    \/ Execute /\ UNCHANGED <<rtVars, wkVars, scVars, fnVars>>
    \/ FnSettles /\ UNCHANGED <<rtVars, wkVars, scVars, fnVars>>
    \/ LoopWakes /\ UNCHANGED <<rtVars, wkVars, scVars, fnVars>>
    \/ Tick /\ UNCHANGED <<rtVars, wkVars, scVars, fnVars>>

SpecLimiter == InitLimiter /\ [][NextLimiter]_vars

\* The limiter when every started function settles, every timer fires and
\* time passes.
SpecLimiterLive ==
    /\ InitLimiter
    /\ [][NextLimiter]_vars
    /\ WF_vars(FnSettles /\ UNCHANGED <<rtVars, wkVars, scVars, fnVars>>)
    /\ WF_vars(LoopWakes /\ UNCHANGED <<rtVars, wkVars, scVars, fnVars>>)
    /\ WF_vars(Tick /\ UNCHANGED <<rtVars, wkVars, scVars, fnVars>>)

\* The limiter with calls that retry inside it.
InitLimiterRetry == RLInit /\ RTParked /\ WKInit /\ SCInit /\ MathParked /\ SimParked /\ TokInit

NextLimiterRetry ==
    \/ ExecuteWithRetry /\ UNCHANGED <<wkVars, scVars, fnVars>>
    \/ LoopWakesWithRetry /\ UNCHANGED <<wkVars, scVars, fnVars>>
    \/ AttemptReturns /\ UNCHANGED <<rlVars, wkVars, scVars, fnVars>>
    \/ AttemptThrows /\ UNCHANGED <<rlVars, wkVars, scVars, fnVars>>
    \/ BackoffDone /\ UNCHANGED <<rlVars, wkVars, scVars, fnVars>>
    \/ FnSettlesWithRetry /\ UNCHANGED <<rtVars, wkVars, scVars, fnVars>>
    \/ Tick /\ UNCHANGED <<rtVars, wkVars, scVars, fnVars>>

SpecLimiterRetry == InitLimiterRetry /\ [][NextLimiterRetry]_vars

InitRetry == RTInit /\ RLParked /\ WKInit /\ SCInit /\ MathParked /\ SimParked /\ TokInit

NextRetry ==
    \/ RetryFnReturns /\ UNCHANGED <<rlVars, wkVars, scVars, fnVars>>
    \/ RetryFnThrows /\ UNCHANGED <<rlVars, wkVars, scVars, fnVars>>
    \/ RetryBackoffDone /\ UNCHANGED <<rlVars, wkVars, scVars, fnVars>>

SpecRetry == InitRetry /\ [][NextRetry]_vars

\* The worker: start-up run, cron runs and the activations they start, each
\* scan taken as one step.
Init == WKInit /\ RLParked /\ RTParked /\ SCInit /\ MathParked /\ SimParked /\ TokInit

Next ==
    \/ StartupRun /\ UNCHANGED <<rlVars, rtVars, scVars, fnVars>>
    \/ CronRun /\ UNCHANGED <<rlVars, rtVars, scVars, fnVars>>
    \/ NewBlock /\ UNCHANGED <<rlVars, rtVars, scVars, fnVars>>
    \/ \E c \in Cycles : BlockFetched(c) /\ UNCHANGED <<rlVars, rtVars, scVars, fnVars>>
    \/ \E c \in Cycles : SimpleScanDone(c) /\ UNCHANGED <<rlVars, rtVars, scVars, fnVars>>
    \/ \E c \in Cycles : TriScanDone(c) /\ UNCHANGED <<rlVars, rtVars, scVars, fnVars>>
    \/ \E c \in Cycles : SaveDone(c) /\ UNCHANGED <<rlVars, rtVars, scVars, fnVars>>
    \/ \E c \in Cycles : MetricsDone(c) /\ UNCHANGED <<rlVars, rtVars, scVars, fnVars>>
    \/ \E c \in Cycles : ErrCountDone(c) /\ UNCHANGED <<rlVars, rtVars, scVars, fnVars>>
    \/ \E c \in Cycles : Return(c) /\ UNCHANGED <<rlVars, rtVars, scVars, fnVars>>

Spec == Init /\ [][Next]_vars

\* One activation (the start-up run) with its scans taken candidate by
\* candidate.
InitScan == WKInit /\ RLParked /\ RTParked /\ SCInit /\ MathParked /\ SimParked /\ TokInit

NextScan ==
    \/ StartupRun /\ UNCHANGED <<rlVars, rtVars, scVars, fnVars>>
    \/ BlockFetched(1) /\ UNCHANGED <<rlVars, rtVars, scVars, fnVars>>
    \/ FirstBatch /\ UNCHANGED <<rlVars, rtVars, fnVars>>
    \/ \E n \in 1..batchSize : CandUniswap(n) /\ UNCHANGED <<rlVars, rtVars, fnVars>>
    \/ \E n \in 1..batchSize : CandSushiswap(n) /\ UNCHANGED <<rlVars, rtVars, fnVars>>
    \/ \E n \in 1..batchSize : CandDirection1(n) /\ UNCHANGED <<rlVars, rtVars, fnVars>>
    \/ \E n \in 1..batchSize : CandDirection2(n) /\ UNCHANGED <<rlVars, rtVars, fnVars>>
    \/ BatchDone /\ UNCHANGED <<rlVars, rtVars, fnVars>>
    \/ TriplePairs /\ UNCHANGED <<rlVars, rtVars, fnVars>>
    \/ TripleGas /\ UNCHANGED <<rlVars, rtVars, fnVars>>
    \/ SaveDone(1) /\ UNCHANGED <<rlVars, rtVars, scVars, fnVars>>
    \/ MetricsDone(1) /\ UNCHANGED <<rlVars, rtVars, scVars, fnVars>>
    \/ ErrCountDone(1) /\ UNCHANGED <<rlVars, rtVars, scVars, fnVars>>
    \/ Return(1) /\ UNCHANGED <<rlVars, rtVars, scVars, fnVars>>

SpecScan == InitScan /\ [][NextScan]_vars

\* The swap formulas applied to one set of arguments.
InitMath == MathInit /\ RLParked /\ RTParked /\ WKInit /\ SCInit /\ SimLibrary /\ TokInit

NextMath ==
    \/ MathGetAmountOut /\ UNCHANGED <<rlVars, rtVars, wkVars, scVars, arbVars, tokVars>>
    \/ MathGetAmountOutMore /\ UNCHANGED <<rlVars, rtVars, wkVars, scVars, arbVars, tokVars>>
    \/ MathGetAmountIn /\ UNCHANGED <<rlVars, rtVars, wkVars, scVars, arbVars, tokVars>>
    \/ MathRoundTrip /\ UNCHANGED <<rlVars, rtVars, wkVars, scVars, arbVars, tokVars>>
    \/ MathSufficientInput /\ UNCHANGED <<rlVars, rtVars, wkVars, scVars, arbVars, tokVars>>
    \/ MathGetAmountsOut /\ UNCHANGED <<rlVars, rtVars, wkVars, scVars, arbVars, tokVars>>
    \/ MathGetAmountsIn /\ UNCHANGED <<rlVars, rtVars, wkVars, scVars, arbVars, tokVars>>
    \/ MathPriceImpact /\ UNCHANGED <<rlVars, rtVars, wkVars, scVars, arbVars, tokVars>>

SpecMath == InitMath /\ [][NextMath]_vars

\* The detector's checks of one pair and of one triple.
InitSim == SimInit /\ RLParked /\ RTParked /\ WKInit /\ SCInit /\ MathParked /\ TokInit

NextSim ==
    \/ DirectionUniswapToSushiswap /\ UNCHANGED <<rlVars, rtVars, wkVars, scVars, mathVars, tokVars>>
    \/ DirectionSushiswapToUniswap /\ UNCHANGED <<rlVars, rtVars, wkVars, scVars, mathVars, tokVars>>
    \/ TriangularStart /\ UNCHANGED <<rlVars, rtVars, wkVars, scVars, mathVars, tokVars>>
    \/ TriangularSize /\ UNCHANGED <<rlVars, rtVars, wkVars, scVars, mathVars, tokVars>>

SpecSim == InitSim /\ [][NextSim]_vars

\* The reads of one simple scan.
InitBatch == BatchInit /\ RLParked /\ RTParked /\ WKInit /\ MathParked /\ SimParked /\ TokInit

NextBatches ==
    \/ \E n \in 1..batchSize : AddressRead(n) /\ UNCHANGED <<rlVars, rtVars, wkVars, fnVars>>
    \/ \E n \in 1..batchSize : DataRead(n) /\ UNCHANGED <<rlVars, rtVars, wkVars, fnVars>>
    \/ \E n \in 1..batchSize : GasRead(n) /\ UNCHANGED <<rlVars, rtVars, wkVars, fnVars>>
    \/ AbandonedRead /\ UNCHANGED <<rlVars, rtVars, wkVars, fnVars>>
    \/ NextBatch /\ UNCHANGED <<rlVars, rtVars, wkVars, fnVars>>

SpecBatch == InitBatch /\ [][NextBatches]_vars

\* Direct calls of the simulator.
InitSimulator == SimulatorInit /\ RLParked /\ RTParked /\ WKInit /\ SCInit /\ MathParked /\ TokInit

NextSimulator ==
    \/ SimulateSimple /\ UNCHANGED <<rlVars, rtVars, wkVars, scVars, mathVars, tokVars>>
    \/ SimulateTriangular /\ UNCHANGED <<rlVars, rtVars, wkVars, scVars, mathVars, tokVars>>

SpecSimulator == InitSimulator /\ [][NextSimulator]_vars

\* Calls of findOptimalAmount.
InitSearch == SearchInit /\ RLParked /\ RTParked /\ WKInit /\ SCInit /\ MathParked /\ TokInit

NextSearch == FindOptimalAmount /\ UNCHANGED <<rlVars, rtVars, wkVars, scVars, mathVars, tokVars>>

SpecSearch == InitSearch /\ [][NextSearch]_vars

\* Calls of the access layer's methods, one at a time.
InitAccess == TokInit /\ RLParked /\ RTParked /\ WKInit /\ SCInit /\ MathParked /\ SimParked

NextAccess ==
    \/ \E method \in AccessMethods : AccessCall(method) /\ UNCHANGED <<rlVars, rtVars, wkVars, scVars, mathVars, arbVars, tok, pairCache>>
    \/ SubmitRead /\ UNCHANGED <<rlVars, rtVars, wkVars, scVars, mathVars, arbVars, tok, pairCache>>
    \/ Admit /\ UNCHANGED <<rlVars, rtVars, wkVars, scVars, mathVars, arbVars, tok, pairCache>>
    \/ WithExponentialBackoff /\ UNCHANGED <<rlVars, rtVars, wkVars, scVars, mathVars, arbVars, tok, pairCache>>
    \/ StartRead /\ UNCHANGED <<rlVars, rtVars, wkVars, scVars, mathVars, arbVars, tok, pairCache>>
    \/ ReadReturns /\ UNCHANGED <<rlVars, rtVars, wkVars, scVars, mathVars, arbVars, tok, pairCache>>
    \/ ReadFails /\ UNCHANGED <<rlVars, rtVars, wkVars, scVars, mathVars, arbVars, tok, pairCache>>

SpecAccess == InitAccess /\ [][NextAccess]_vars

\* The access layer when every read settles and the limiter and the retry
\* wrapper take every step they can.
AccessProgress ==
    (SubmitRead \/ Admit \/ WithExponentialBackoff \/ StartRead \/ ReadReturns \/ ReadFails)
        /\ UNCHANGED <<rlVars, rtVars, wkVars, scVars, mathVars, arbVars, tok, pairCache>>

SpecAccessLive == InitAccess /\ [][NextAccess]_vars /\ WF_vars(AccessProgress)

\* Calls of getTokenInfo, their fetches, and clearCaches.
InitTokens == TokInit /\ RLParked /\ RTParked /\ WKInit /\ SCInit /\ MathParked /\ SimParked

NextTokens ==
    \/ \E a \in TokenAddresses : GetTokenInfo(a) /\ UNCHANGED <<rlVars, rtVars, wkVars, scVars, mathVars, arbVars, access, pairCache>>
    \/ \E i \in 1..MaxTokenCalls : TokenFetchSucceeds(i) /\ UNCHANGED <<rlVars, rtVars, wkVars, scVars, mathVars, arbVars, access, pairCache>>
    \/ \E i \in 1..MaxTokenCalls : TokenFetchFails(i) /\ UNCHANGED <<rlVars, rtVars, wkVars, scVars, mathVars, arbVars, access, pairCache>>
    \/ ClearCaches /\ UNCHANGED <<rlVars, rtVars, wkVars, scVars, mathVars, arbVars, access>>

SpecTokens == InitTokens /\ [][NextTokens]_vars

\* Calls of getPairAddress, their lookups, and clearCaches.
InitPairs == TokInit /\ RLParked /\ RTParked /\ WKInit /\ SCInit /\ MathParked /\ SimParked

NextPairs ==
    \/ \E f \in PairFactories, a, b \in PairTokens : GetPairAddress(f, a, b) /\ UNCHANGED <<rlVars, rtVars, wkVars, scVars, mathVars, arbVars, tok, access>>
    \/ \E i \in 1..MaxPairCalls : PairLookupSucceeds(i) /\ UNCHANGED <<rlVars, rtVars, wkVars, scVars, mathVars, arbVars, tok, access>>
    \/ \E i \in 1..MaxPairCalls : PairLookupFails(i) /\ UNCHANGED <<rlVars, rtVars, wkVars, scVars, mathVars, arbVars, tok, access>>
    \/ ClearCaches /\ UNCHANGED <<rlVars, rtVars, wkVars, scVars, mathVars, arbVars, access>>

SpecPairs == InitPairs /\ [][NextPairs]_vars

(***************************************************************************)
(* Properties of the RateLimiter (SpecLimiter)                             *)
(***************************************************************************)
\* The dispatches whose time lies in the window of length timeWindow ending
\* at `end`: the timestamps t with end - timeWindow < t <= end.
DispatchesInWindow(end) ==
    {i \in 1..Len(log) :
        log[i].at > end - options.timeWindow /\ log[i].at <= end}

\* C2: whatever is submitted, every sliding window of length timeWindow holds
\* at most maxRequests dispatches.
C2_WindowBound ==
    \A end \in 0..(MaxTime + 1) :
        Cardinality(DispatchesInWindow(end)) <= options.maxRequests

\* C2 witness: more calls than maxRequests were submitted at once, the spacing
\* alone would have let the next one through, and it was dispatched exactly
\* when the oldest dispatch left the window.
C2_Witness ==
    /\ options.maxRequests * options.minInterval < options.timeWindow
    /\ Len(log) > options.maxRequests
    /\ log[options.maxRequests + 1].at = log[1].at + options.timeWindow
    /\ \A i \in 1..options.maxRequests : log[i].at < log[1].at + options.timeWindow

\* C3 (as claimed): two consecutive dispatches are always at least minInterval
\* apart.
C3_MinIntervalAlways ==
    \A i \in 1..(Len(log) - 1) : log[i + 1].at - log[i].at >= options.minInterval

\* C4: calls are dispatched in the order of their submission (call ids are
\* numbered in submission order), also after a call failed.
C4_FifoDispatch ==
    /\ \A i \in 1..Len(log) : log[i].id = i
    /\ \A i \in 1..Len(queue) : queue[i] = Len(log) + i

\* C4 witness: the first call failed, later calls were dispatched after it,
\* and several calls are waiting in the queue.
C4_Witness ==
    /\ Len(log) >= 2
    /\ calls[1] = "rejected"
    /\ Len(queue) >= 2

(***************************************************************************)
(* Properties of the RetryHandler (SpecRetry)                              *)
(***************************************************************************)
AllRaised(P(_)) == \A i \in 1..Len(raised) : P(raised[i])
Fatal(e) == ~isRetryableError(e)

\* C5: when every error fn raises is classified non-retryable, fn is invoked
\* exactly once, nothing is slept and the call fails with that error.
C5_FatalFailsAtOnce ==
    (Len(raised) >= 1 /\ AllRaised(Fatal)) =>
        /\ retry.pc = "failed"
        /\ invocations = 1
        /\ sleeps = <<>>
        /\ raised = <<retry.error>>

\* C5 witness: retries were available and a fatal error ended the call.
C5_Witness ==
    /\ retryOptions.maxRetries > 0
    /\ retry.pc = "failed"
    /\ Len(raised) = 1
    /\ Fatal(raised[1])
    /\ ~raised[1].falsy

ExpectedDelay(k) ==
    LET d == retryOptions.baseDelay * Pow2(k)
    IN  IF d < retryOptions.maxDelay THEN d ELSE retryOptions.maxDelay

\* What a call that failed, sleeps or returned has done so far, when every
\* error raised was retryable.
C6_State ==
    /\ (retry.pc = "failed" /\ AllRaised(isRetryableError)) =>
          /\ invocations = retryOptions.maxRetries + 1
          /\ Len(raised) = retryOptions.maxRetries + 1
          /\ sleeps = [k \in 1..retryOptions.maxRetries |-> ExpectedDelay(k - 1)]
          /\ retry.error = raised[Len(raised)]
    /\ (retry.pc = "sleeping" /\ AllRaised(isRetryableError)) =>
          /\ Len(raised) <= retryOptions.maxRetries
          /\ sleeps = [k \in 1..Len(raised) |-> ExpectedDelay(k - 1)]
    /\ retry.pc = "returned" =>
          /\ retry.value \in Values
          /\ invocations = Len(raised) + 1
          /\ Len(sleeps) = Len(raised)

\* C6: with only retryable errors the call fails after maxRetries + 1
\* invocations (4 with the defaults), having slept
\* min(baseDelay * 2^k, maxDelay) after failed attempt k, with the last error;
\* a successful attempt returns its value, and nothing is invoked or slept
\* after the call has returned or failed.
C6_ExponentialBackoff ==
    /\ []C6_State
    /\ [][retry.pc \in {"returned", "failed"} => UNCHANGED rtVars]_vars

\* C6 witness: all attempts failed with retryable errors and the cap applied
\* to the last delay but not to the first.
C6_Witness ==
    /\ retry.pc = "failed"
    /\ AllRaised(isRetryableError)
    /\ Len(sleeps) >= 2
    /\ sleeps[1] < retryOptions.maxDelay
    /\ retryOptions.baseDelay * Pow2(Len(sleeps) - 1) > retryOptions.maxDelay

(***************************************************************************)
(* Properties of the worker and its detection cycles (Spec)                *)
(***************************************************************************)
\* The activations that are past their block fetch and not yet at their end.
PastBlockFetch == {c \in Cycles : cyc[c].pc \in {"simpleScan", "triScan", "save", "metrics"}}

\* C1 (as claimed): at most one detection cycle is between its block fetch and
\* its end at any time.
C1_SingleActiveCycle == Cardinality(PastBlockFetch) <= 1

Entered(c, phase) == \E i \in 1..Len(hist[c].phases) : hist[c].phases[i] = phase

\* After the failure the cycle only counts the error: the catch block is the
\* last phase and is entered once.
NoLaterPhase(c) ==
    LET ph == hist[c].phases
    IN  /\ cyc[c].pc = "ended"
        /\ Len(ph) >= 2
        /\ ph[Len(ph)] = "ErrorCount"
        /\ \A i \in 1..(Len(ph) - 1) : ph[i] # "ErrorCount"

\* What the scans completed before the failure had found reached the sink.
NothingDiscarded(c) ==
    Entered(c, "TriangularScan") => hist[c].save \in {"stored", "skippedEmpty"}

\* C7 (as claimed): a cycle that fails at the cycle level increments the error
\* counter by exactly one, runs no later phase and discards nothing computed.
C7_FailureCountedOnce ==
    \A c \in Cycles :
        hist[c].outcome = "failed" =>
            /\ hist[c].errCount = "incremented"
            /\ NoLaterPhase(c)
            /\ NothingDiscarded(c)

\* C7 (amended): a cycle that fails at the cycle level makes exactly one
\* error-count update, which increments the counter by one unless that write
\* itself fails; it runs no later phase and discards nothing computed; and the
\* error counter is touched by no other cycle.
C7_FailureHandled ==
    \A c \in Cycles :
        /\ hist[c].outcome = "failed" =>
              /\ hist[c].errCount \in {"incremented", "failed"}
              /\ NoLaterPhase(c)
              /\ NothingDiscarded(c)
        /\ hist[c].outcome \in {"skipped", "completed"} =>
              hist[c].errCount = "notCalled"

\* C7 witness: the block fetch failed and the error was counted.
C7_Witness ==
    \E c \in Cycles :
        /\ hist[c].outcome = "failed"
        /\ hist[c].errCount = "incremented"
        /\ hist[c].phases = <<"FetchBlock", "ErrorCount">>

\* C8: detectOpportunities never rejects, whatever RPC call or sink operation
\* fails; the process stays up and the next trigger can start a cycle.
C8_NeverFailsToCaller ==
    /\ alive
    /\ \A c \in Cycles :
        /\ hist[c].outcome # "rejected"
        /\ cyc[c].pc = "ended" => ENABLED Return(c)
    /\ (triggers < MaxTriggers /\ \E c \in Cycles : cyc[c].pc = "idle")
          => ENABLED CronRun

\* C8 witness: the block fetch failed, the error-count update failed too, the
\* cycle still returned normally and a further trigger is possible.
C8_Witness ==
    \E c \in Cycles :
        /\ cyc[c].pc = "ended"
        /\ hist[c].outcome = "failed"
        /\ hist[c].errCount = "failed"
        /\ triggers < MaxTriggers

\* A skipped cycle has done nothing but fetch the block number.
C10_State ==
    \A c \in Cycles :
        hist[c].outcome = "skipped" =>
            /\ cyc[c].pc = "ended"
            /\ hist[c].phases = <<"FetchBlock">>
            /\ hist[c].save = "notCalled"
            /\ hist[c].metrics = "notCalled"
            /\ hist[c].errCount = "notCalled"
            /\ ~hist[c].wroteLastProcessed

\* The step on which a block fetch succeeds: the cycle is skipped exactly when
\* the block is not greater than lastProcessedBlock, and skipping changes
\* neither lastProcessedBlock nor any other activation.
C10_Step ==
    \A c \in Cycles :
        (cyc[c].pc = "fetchBlock" /\ cyc'[c].pc \in {"simpleScan", "ended"}) =>
            /\ (chainBlock <= lastProcessedBlock) <=> (cyc'[c].pc = "ended")
            /\ cyc'[c].pc = "ended" =>
                  /\ hist'[c].outcome = "skipped"
                  /\ lastProcessedBlock' = lastProcessedBlock
                  /\ \A d \in Cycles \ {c} : cyc'[d] = cyc[d] /\ hist'[d] = hist[d]

\* C10: a cycle whose fetched block is not strictly greater than
\* lastProcessedBlock is skipped entirely: no scan, nothing handed to the
\* sink, no error counted, lastProcessedBlock unchanged.
C10_SkippedEntirely == []C10_State /\ [][C10_Step]_vars

\* C10 witness: a cycle found the block it fetched equal to the block
\* already processed, and was skipped.
C10_Witness ==
    \E c \in Cycles :
        /\ hist[c].outcome = "skipped"
        /\ Len(hist[c].skipTest) = 2
        /\ hist[c].skipTest[1] = hist[c].skipTest[2]
        /\ hist[c].skipTest[1] > 0

(***************************************************************************)
(* Properties of the scans of one activation (SpecScan)                    *)
(***************************************************************************)
\* The candidates of the current batch that have returned.
Settled == {n \in DOMAIN scan.cand : scan.cand[n].pc = "settled"}

\* C9: a failure met while one candidate is processed (a pair absent on an
\* exchange, an access failure, a simulation's validation error) leaves that
\* candidate without opportunity and touches nothing else: a candidate that
\* met no absent pair and no access failure returns what its simulations
\* found, every pair and every triple is processed before the scans return,
\* neither scan throws, and the error counter is not updated.
C9_FailureConfined ==
    /\ scan.stage # "aborted"
    /\ \A n \in Settled :
          scan.cand[n].result =
              (IF scan.cand[n].fault = NoFault /\ scan.cand[n].profitSeen
               THEN "some" ELSE "empty")
    /\ scan.opportunities + scan.triOpportunities <= scan.pairsDone + scan.triplesDone
    /\ Entered(1, "SimpleScan") =>
          /\ ~Entered(1, "ErrorCount")
          /\ hist[1].errCount = "notCalled"
    /\ Entered(1, "TriangularScan") =>
          /\ scan.pairsDone = Len(getTokenPairs)
          /\ cyc[1].pc = "triScan" => cyc[1].simple = (IF scan.opportunities > 0 THEN "some" ELSE "empty")
    /\ Entered(1, "Save") =>
          /\ scan.triplesDone = Len(tokenTriples)
          /\ cyc[1].pc = "save" => cyc[1].tri = (IF scan.triOpportunities > 0 THEN "some" ELSE "empty")

\* C9 witness: pairs were absent, an access failed and a simulation raised a
\* validation error during the scans; both scans went through all their
\* candidates, both found opportunities, and the cycle completed.
C9_Witness ==
    /\ hist[1].outcome = "completed"
    /\ scan.faults = {"absent", "accessFailed", "math"}
    /\ scan.pairsDone = Len(getTokenPairs)
    /\ scan.triplesDone = Len(tokenTriples)
    /\ scan.opportunities > 0
    /\ scan.triOpportunities > 0
    /\ hist[1].save = "stored"

(***************************************************************************)
(* Properties of the swap formulas (SpecMath)                              *)
(***************************************************************************)
PositiveReserves == math.reserveIn > 0 /\ math.reserveOut > 0

\* C16: for amountIn > 0 and positive reserves getAmountOut returns the
\* integer v = floor(amountIn*997*reserveOut / (reserveIn*1000 + amountIn*997)),
\* that is v * denominator <= numerator < (v + 1) * denominator.
C16_AmountOutFormula ==
    (math.out # NoResult /\ math.amount > 0 /\ PositiveReserves) =>
        LET numerator == math.amount * 997 * math.reserveOut
            denominator == math.reserveIn * 1000 + math.amount * 997
        IN  /\ math.out.ok
            /\ math.out.value * denominator <= numerator
            /\ numerator < (math.out.value + 1) * denominator

\* C16 witness: getAmountOut returned a positive amount that is a proper
\* rounding down.
C16_Witness ==
    /\ math.out.ok
    /\ math.out.value > 0
    /\ math.out.value * (math.reserveIn * 1000 + math.amount * 997)
         < math.amount * 997 * math.reserveOut

\* C17: getAmountOut throws INSUFFICIENT_INPUT_AMOUNT when amountIn <= 0,
\* whatever the reserves, and INSUFFICIENT_LIQUIDITY when amountIn > 0 and a
\* reserve is <= 0; getAmountIn throws INSUFFICIENT_OUTPUT_AMOUNT when
\* amountOut <= 0 and otherwise INSUFFICIENT_LIQUIDITY when a reserve is <= 0
\* or amountOut >= reserveOut; a call that throws returns no value.
C17_ValidationErrors ==
    /\ math.out # NoResult =>
          /\ math.amount <= 0 => math.out = Thrown("INSUFFICIENT_INPUT_AMOUNT")
          /\ (math.amount > 0 /\ ~PositiveReserves) =>
                math.out = Thrown("INSUFFICIENT_LIQUIDITY")
    /\ math.op = "getAmountIn" =>
          /\ math.amount <= 0 => math.res = Thrown("INSUFFICIENT_OUTPUT_AMOUNT")
          /\ (math.amount > 0 /\ (~PositiveReserves \/ math.amount >= math.reserveOut)) =>
                math.res = Thrown("INSUFFICIENT_LIQUIDITY")

\* C17 witness: both functions were called with a non-positive amount and a
\* non-positive reserve, and each reported the amount.
C17_Witness ==
    /\ math.amount <= 0
    /\ math.reserveIn <= 0
    /\ math.out = Thrown("INSUFFICIENT_INPUT_AMOUNT")
    /\ math.op = "getAmountIn"
    /\ math.res = Thrown("INSUFFICIENT_OUTPUT_AMOUNT")

\* C18: a valid getAmountOut returns less than reserveOut, and for
\* a1 <= a2 it returns no more for a1 than for a2.
C18_BoundedMonotone ==
    /\ math.out.ok => math.out.value < math.reserveOut
    /\ (math.out.ok /\ math.outMore.ok) => math.out.value <= math.outMore.value

\* C18 witness: a larger input gave a strictly larger output, still below
\* the reserve.
C18_Witness ==
    /\ math.out.ok
    /\ math.outMore.ok
    /\ math.delta > 0
    /\ 0 < math.out.value
    /\ math.out.value < math.outMore.value

\* The round trip was made on a valid getAmountOut with a positive result.
RoundTripMade ==
    /\ math.op = "roundTrip"
    /\ math.out.ok
    /\ math.out.value > 0

\* C19 (as claimed): getAmountIn(getAmountOut(x, rin, rout), rin, rout) >= x
\* whenever both calls are valid.
C19_RoundTripAtLeast == RoundTripMade => (math.res.ok /\ math.res.value >= math.amount)

\* C19 (amended): with y = getAmountOut(x, rin, rout) > 0, getAmountIn(y, rin,
\* rout) returns z with z <= x + 1 and getAmountOut(z, rin, rout) >= y.
C19_RoundTripBounds ==
    RoundTripMade =>
        /\ math.res.ok
        /\ math.res.value <= math.amount + 1
        /\ LET back == getAmountOut(math.res.value, math.reserveIn, math.reserveOut)
           IN  back.ok /\ back.value >= math.out.value

\* C19 witness: the round trip returned less than the amount spent.
C19_Witness ==
    /\ RoundTripMade
    /\ math.res.ok
    /\ math.res.value < math.amount

\* C20: for no hop getAmountsOut and getAmountsIn throw 'Invalid reserves
\* array'; for N >= 1 hops a returned sequence has N + 1 elements,
\* getAmountsOut's starts with amountIn and element i + 1 is
\* getAmountOut(element i, reserves[i]), getAmountsIn's ends with amountOut
\* and element i is getAmountIn(element i + 1, reserves[i]).
C20_MultiHop ==
    LET reserves == pathReserves(math.hops)
        v == math.res.value
    IN  /\ (math.op \in {"getAmountsOut", "getAmountsIn"} /\ math.hops = 0) =>
              math.res = Thrown("Invalid reserves array")
        /\ (math.op = "getAmountsOut" /\ math.hops > 0 /\ math.res.ok) =>
              /\ Len(v) = math.hops + 1
              /\ v[1] = math.amount
              /\ \A i \in 1..math.hops :
                    getAmountOut(v[i], reserves[i][1], reserves[i][2]) = Returned(v[i + 1])
        /\ (math.op = "getAmountsIn" /\ math.hops > 0 /\ math.res.ok) =>
              /\ Len(v) = math.hops + 1
              /\ v[math.hops + 1] = math.amount
              /\ \A i \in 1..math.hops :
                    getAmountIn(v[i + 1], reserves[i][1], reserves[i][2]) = Returned(v[i])

\* C20 witness: getAmountsOut returned the amounts of a path of two hops.
C20_Witness ==
    /\ math.op = "getAmountsOut"
    /\ math.hops = 2
    /\ math.res.ok
    /\ math.res.value[2] > 0

(***************************************************************************)
(* Properties of the detector's checks (SpecSim)                           *)
(***************************************************************************)
\* The reserves of a pair as a trade that pays tokenIn meets them.
Leg(pair, tokenIn) ==
    IF pair.reserves.token0.name = tokenIn.name
    THEN <<pair.reserves.reserve0, pair.reserves.reserve1>>
    ELSE <<pair.reserves.reserve1, pair.reserves.reserve0>>

Swappable(x, r) == x > 0 /\ r[1] > 0 /\ r[2] > 0

SwapOut(x, r) == (x * 997 * r[2]) \div (r[1] * 1000 + x * 997)

\* A raw profit whose haircut exceeds the minimum profit.
ExceedsThreshold(raw) ==
    /\ raw > 0
    /\ (raw * arb.config.safetyFactor) \div 1000 > arb.config.minProfitWei

\* The candidate of direction d (1: buy on Uniswap, 2: buy on SushiSwap), the
\* k-th size and the token direction aToB: its simulation succeeds and its
\* margin-adjusted profit exceeds the threshold.
SimpleQualifies(d, k, aToB) ==
    LET x == simpleAmounts[k]
        base == IF aToB THEN arb.tokens[1] ELSE arb.tokens[2]
        quote == IF aToB THEN arb.tokens[2] ELSE arb.tokens[1]
        rA == Leg(arb.pairs[d], base)
        rB == Leg(arb.pairs[3 - d], quote)
    IN  /\ arb.scale.ok
        /\ Swappable(x, rA)
        /\ Swappable(SwapOut(x, rA), rB)
        /\ ExceedsThreshold(SwapOut(SwapOut(x, rA), rB) - x
                            - arb.direction[d].gasEstimate)

\* The number of records of direction d for the k-th size and token direction.
SimpleEmitted(d, k, aToB) ==
    LET base == IF aToB THEN arb.tokens[1] ELSE arb.tokens[2]
        ops == arb.direction[d].opportunities
    IN  Cardinality({j \in 1..Len(ops) :
                        /\ BN(ops[j].amountIn) = simpleAmounts[k]
                        /\ ops[j].baseToken = base
                        /\ ops[j].buyDex = (IF d = 1 THEN "Uniswap V2" ELSE "SushiSwap")})

Emitted ==
    UNION {{arb.direction[d].opportunities[j] :
                j \in 1..Len(arb.direction[d].opportunities)} : d \in 1..2}
    \cup (IF arb.tri.result # null THEN {arb.tri.result} ELSE {})

C14_RecordShape ==
    \A o \in Emitted :
        /\ BN(o.amountIn) > 0
        /\ o.arbitrageType = "TRIANGULAR" =>
            /\ Len(o.tokenPath) = 4
            /\ o.tokenPath = <<arb.tokens[1], arb.tokens[2], arb.tokens[3], arb.tokens[1]>>
            /\ Cardinality({o.tokenPath[1].name, o.tokenPath[2].name,
                            o.tokenPath[3].name}) = 3
            /\ o.tokenPath[4] = o.tokenPath[1]
            /\ o.baseToken = o.tokenPath[1]
            /\ o.quoteToken = o.tokenPath[1]
            /\ o.intermediateToken = o.tokenPath[2]
            /\ Len(o.amounts) = 4
            /\ o.amounts[1] = o.amountIn
            /\ o.amounts[4] = o.amountOut
            /\ Len(o.priceImpacts) = 3

\* A triangular opportunity has been returned.
C14_Witness ==
    /\ arb.kind = "triple"
    /\ arb.tri.pc = "done"
    /\ arb.tri.result # null
    /\ arb.tri.result.arbitrageType = "TRIANGULAR"

\* The k-th size of the triple: the three hops succeed and the
\* margin-adjusted profit exceeds the threshold.
TriangularQualifies(k) ==
    LET x == triangularAmounts[k]
        rAB == Leg(arb.pairs[1], arb.tokens[1])
        rBC == Leg(arb.pairs[2], arb.tokens[2])
        rCA == Leg(arb.pairs[3], arb.tokens[3])
    IN  /\ arb.scale.ok
        /\ Swappable(x, rAB)
        /\ Swappable(SwapOut(x, rAB), rBC)
        /\ Swappable(SwapOut(SwapOut(x, rAB), rBC), rCA)
        /\ ExceedsThreshold(SwapOut(SwapOut(SwapOut(x, rAB), rBC), rCA) - x
                            - arb.tri.gasEstimate)

\* C11: the three sizes of a triple are tried in the fixed order 0.1, 1, 10;
\* the first size whose margin-adjusted profit exceeds the threshold is
\* accepted and the opportunity returned is for that size; no later size is
\* simulated, so a triple yields at most one opportunity; a size that is
\* unprofitable or whose simulation fails does not stop the search.
C11_FirstQualifyingSize ==
    (arb.kind = "triple" /\ arb.tri.pc # "idle") =>
        LET n == Len(arb.tri.simulated)
        IN  /\ n <= Len(triangularAmounts)
            /\ arb.tri.simulated = SubSeq(triangularAmounts, 1, n)
            /\ \A k \in 1..n :
                   TriangularQualifies(k) <=>
                       /\ k = n
                       /\ arb.tri.pc = "done"
                       /\ arb.tri.result # null
                       /\ BN(arb.tri.result.amountIn) = triangularAmounts[k]
            /\ arb.tri.result # null => n >= 1 /\ TriangularQualifies(n)
            /\ (arb.tri.pc = "done" /\ arb.tri.result = null)
                   => n = Len(triangularAmounts)
            /\ arb.tri.pc = "loop" => arb.tri.i = n + 1

\* The first size failed in its second hop, the second was accepted and the
\* third was never simulated.
C11_Witness ==
    /\ arb.kind = "triple"
    /\ arb.tri.pc = "done"
    /\ arb.tri.result # null
    /\ arb.tri.simulated = <<1, 10>>
    /\ ~Swappable(SwapOut(1, Leg(arb.pairs[1], arb.tokens[1])),
                  Leg(arb.pairs[2], arb.tokens[2]))

(***************************************************************************)
(* Properties of the token cache (SpecTokens)                              *)
(***************************************************************************)
\* C15: after a successful getTokenInfo(address), every later call for the
\* same address returns the same TokenInfo without submitting anything to
\* the rate limiter or the network, unless clearCaches was called in
\* between; a failed fetch leaves the cache unchanged.
C15_CachedAfterSuccess ==
    \A i \in 1..Len(tok.calls) :
        LET c == tok.calls[i]
        IN  /\ c.afterSuccess =>
                /\ ~c.submitted
                /\ c.pc = "returned"
                /\ c.result = c.expected
            /\ c.pc = "thrown" => c.cacheAfter = c.cacheBefore

\* A call was answered from the cache after an earlier call for the address
\* had fetched it, while another fetch has failed.
C15_Witness ==
    \E i, j, k \in 1..Len(tok.calls) :
        /\ i < j
        /\ tok.calls[i].address = tok.calls[j].address
        /\ tok.calls[i].submitted
        /\ tok.calls[i].pc = "returned"
        /\ tok.calls[j].afterSuccess
        /\ tok.calls[j].pc = "returned"
        /\ tok.calls[k].pc = "thrown"

(***************************************************************************)
(* Properties of the simulator's results (SpecMath, SpecSim)               *)
(***************************************************************************)
PriceImpactCalled == math.op = "calculatePriceImpact"

\* C21 as stated: calculatePriceImpact returns 0 and never fails whenever any
\* one of amountIn, amountOut, reserveIn, reserveOut is zero or negative.
C21_ZeroForAnyNonPositive ==
    (/\ PriceImpactCalled
     /\ \/ math.amount <= 0
        \/ math.res.amountOut <= 0
        \/ math.reserveIn <= 0
        \/ math.reserveOut <= 0)
        => math.res.impact = Returned(0)

\* C21 amended: calculatePriceImpact returns 0 and never fails whenever
\* amountIn, reserveIn or reserveOut is zero or negative, whatever amountOut
\* is.
C21_ZeroForGuardedInputs ==
    (/\ PriceImpactCalled
     /\ \/ math.amount <= 0
        \/ math.reserveIn <= 0
        \/ math.reserveOut <= 0)
        => math.res.impact = Returned(0)

\* A zero amountIn gave 0 although the library rejects 10**18.
C21_Witness ==
    /\ PriceImpactCalled
    /\ ~arb.scale.ok
    /\ math.amount = 0
    /\ math.res.amountOut > 0
    /\ PositiveReserves
    /\ math.res.impact = Returned(0)

\* simulateSimpleArbitrage has been called, with both hops valid.
SimpleCalled == arb.call.op = "simulateSimpleArbitrage"

FirstHop == getAmountOut(arb.call.amountIn, arb.call.reserves[1][1], arb.call.reserves[1][2])

SecondHop == getAmountOut(FirstHop.value, arb.call.reserves[2][1], arb.call.reserves[2][2])

BothHopsValid == FirstHop.ok /\ SecondHop.ok

ReversedPools ==
    /\ arb.call.reserves[1][1] > 0
    /\ arb.call.reserves[1][2] > 0
    /\ arb.call.reserves[2] = <<arb.call.reserves[1][2], arb.call.reserves[1][1]>>

C24_TriangularReturns ==
    (/\ arb.call.op = "simulateTriangularArbitrage"
     /\ arb.call.amountIn > 0
     /\ \A k \in 1..3 : arb.call.reserves[k][1] > 0 /\ arb.call.reserves[k][2] > 0)
        => /\ arb.call.res.ok
           /\ Len(arb.call.res.value.amounts) = 4
           /\ arb.call.res.value.amounts[1] = arb.call.amountIn
           /\ arb.call.res.value.amounts[4] = arb.call.res.value.amountOut
           /\ Len(arb.call.res.value.priceImpacts) = 3

\* ------------------------------------------------------------------------
\* Properties of lastProcessedBlock (Spec)
\* ------------------------------------------------------------------------
AllPhases == <<"FetchBlock", "SimpleScan", "TriangularScan", "Save", "Metrics">>

\* This step is activation c executing `this.lastProcessedBlock = currentBlock`.
WritesLastProcessed(c) == ~hist[c].wroteLastProcessed /\ hist'[c].wroteLastProcessed

\* The write is the last thing an activation does after all five phases, and
\* stores the block it fetched at its start.
FinalStepOfFullCycle(c) ==
    /\ cyc[c].pc = "metrics"
    /\ cyc'[c].pc = "ended"
    /\ hist'[c].outcome = "completed"
    /\ hist'[c].phases = AllPhases
    /\ cyc[c].currentBlock = hist[c].currentBlock
    /\ lastProcessedBlock' = cyc[c].currentBlock

\* C25: lastProcessedBlock is written only as the final step of a cycle that
\* completed successfully (block fetched, both scans done, opportunities and
\* metrics handed to the sink without failure), and is set to the block fetched
\* at the start of that cycle; a skipped or failed cycle leaves it unchanged.
C25_WrittenAfterSinkSuccess ==
    [][/\ lastProcessedBlock' # lastProcessedBlock => \E c \in Cycles : WritesLastProcessed(c)
       /\ \A c \in Cycles :
            /\ WritesLastProcessed(c) =>
                  /\ FinalStepOfFullCycle(c)
                  /\ hist'[c].save \in {"stored", "skippedEmpty"}
                  /\ hist'[c].metrics = "applied"
            /\ hist'[c].outcome \in {"skipped", "failed", "rejected"} =>
                  ~hist'[c].wroteLastProcessed]_vars

\* C25 amended: lastProcessedBlock is written only as the final step of a
\* cycle that ran all its phases (block fetched, both scans done,
\* saveOpportunities and updateSystemMetrics returned, whether or not the sink
\* accepted their writes), and is set to the block fetched at the start of
\* that cycle; a skipped or failed cycle leaves it unchanged.
C25_WrittenAtEndOfFullCycle ==
    [][/\ lastProcessedBlock' # lastProcessedBlock => \E c \in Cycles : WritesLastProcessed(c)
       /\ \A c \in Cycles :
            /\ WritesLastProcessed(c) => FinalStepOfFullCycle(c)
            /\ hist'[c].outcome \in {"skipped", "failed", "rejected"} =>
                  /\ ~hist'[c].wroteLastProcessed
                  /\ hist[c].outcome = "running" => lastProcessedBlock' = lastProcessedBlock]_vars

\* An activation wrote lastProcessedBlock although the sink took neither its
\* opportunities nor its metrics, while the chain had moved on.
C25_Witness ==
    \E c \in Cycles :
        /\ hist[c].wroteLastProcessed
        /\ hist[c].save = "dropped"
        /\ hist[c].metrics = "failed"
        /\ lastProcessedBlock = hist[c].currentBlock
        /\ lastProcessedBlock < chainBlock

\* C26: lastProcessedBlock never decreases: each write stores a value strictly
\* greater than the value it replaces.
C26_StrictlyIncreasing ==
    [][/\ lastProcessedBlock' >= lastProcessedBlock
       /\ \A c \in Cycles :
            WritesLastProcessed(c) => lastProcessedBlock' > lastProcessedBlock]_vars

\* ------------------------------------------------------------------------
\* Properties of the batches of the simple scan (SpecScan, SpecBatch)
\* ------------------------------------------------------------------------
\* C27: the pair candidates are processed in batches of 5 in enumeration
\* order, and the batches run strictly one after the other: the candidates
\* in progress are exactly the next (at most 5) pairs of the enumeration after
\* those already finished, and a new batch starts only when every candidate
\* of the current one has returned.
C27_BatchesSequential ==
    /\ [](scan.stage = "batch" =>
            /\ scan.i % batchSize = 0
            /\ Len(scan.cand) = Min(batchSize, Len(getTokenPairs) - scan.i)
            /\ \A n \in DOMAIN scan.cand : scan.cand[n].pair = scan.i + n
            /\ scan.pairsDone = scan.i)
    /\ [][scan'.stage = "batch" /\ scan'.cand # <<>> /\ scan'.i # scan.i =>
            /\ \A n \in DOMAIN scan.cand : scan.cand[n].pc = "settled"
            /\ scan'.i = scan.i + batchSize
            /\ \A n \in DOMAIN scan'.cand : scan'.cand[n].pc = "uni"]_vars

\* The second batch is under way after a first batch of five in which
\* candidates succeeded, were skipped and failed.
C27_Witness ==
    /\ scan.stage = "batch"
    /\ scan.i = batchSize
    /\ scan.pairsDone = batchSize
    /\ scan.opportunities > 0
    /\ scan.faults = {"absent", "accessFailed", "math"}
    /\ \E n \in DOMAIN scan.cand : scan.cand[n].pc = "dir2"

\* The access-layer calls the scan has made and not got back: every candidate
\* that has not returned awaits exactly one.
PendingCalls == Cardinality({n \in DOMAIN scan.cand : scan.cand[n].step # "settled"})

RECURSIVE readsFrom(_)
readsFrom(n) == IF n > Len(scan.cand) THEN 0 ELSE scan.cand[n].reads + readsFrom(n + 1)

\* The reads the scan's calls have handed to the limiter and that have not
\* settled.
PendingReads == readsFrom(1) + scan.abandoned

C29_SingleWriterPerKey ==
    \A i, j \in 1..Len(tok.calls) :
        (i # j /\ tok.calls[i].address = tok.calls[j].address) =>
            /\ ~(/\ tok.calls[i].submitted
                 /\ tok.calls[j].submitted
                 /\ tok.calls[i].clearsAtCall = tok.calls[j].clearsAtCall)
            /\ ~(/\ tok.calls[i].wrote
                 /\ tok.calls[j].wrote
                 /\ tok.calls[i].clearsAtWrite = tok.calls[j].clearsAtWrite)

\* ------------------------------------------------------------------------
\* Properties of the access layer's reads (SpecAccess)
\* ------------------------------------------------------------------------
\* C30: every network read of the access layer (pair address, reserves,
\* token metadata, block number, gas price, pair enumeration) starts only
\* after the rate limiter has admitted it and runs inside the retry wrapper.
C30_ReadsAdmittedAndRetried ==
    /\ \A r \in access.reads : r.admitted /\ r.inRetry
    /\ access.pc = "reading" =>
          /\ \E f \in DOMAIN access.stack : access.stack[f] = "admitted"
          /\ \E f \in DOMAIN access.stack : access.stack[f] = "retry"
          /\ \A f \in DOMAIN access.stack : access.stack[f] # "queued"

\* Reads of two methods were made, one of them again after a failed attempt.
C30_Witness ==
    /\ \E r \in access.reads : r.method = "getReserves" /\ r.read = "token1" /\ r.retried
    /\ \E r \in access.reads : r.method = "getAllPairs"
    /\ access.pc = "reading"

\* ------------------------------------------------------------------------
\* Properties of the limiter's dispatch loop (SpecLimiter, SpecLimiterRetry, SpecLimiterLive, SpecAccessLive)
\* ------------------------------------------------------------------------
\* The calls whose fn has been started and has not settled.
Started == {id \in CallIds : calls[id] = "running"}

\* C32: the limiter executes calls one at a time: at most one submitted
\* function is started and not yet settled, it is the one the loop awaits,
\* and a call is started only when no other is.
C32_OneAtATime ==
    /\ [](/\ Cardinality(Started) <= 1
          /\ \A id \in Started : loop.pc = "running" /\ loop.id = id)
    /\ [][\A id \in CallIds :
            (calls[id] # "running" /\ calls'[id] = "running") =>
                \A other \in CallIds \ {id} :
                    calls[other] # "running" \/ calls'[other] \in {"resolved", "rejected"}]_vars

\* A call is running while two submitted later wait in the queue, after an
\* earlier one has settled.
C32_Witness ==
    /\ Cardinality(Started) = 1
    /\ Len(queue) >= 2
    /\ \E id \in CallIds : calls[id] \in {"resolved", "rejected"}

\* The running call's wrapper has not returned or thrown yet.
Retrying == loop.pc = "running" /\ retry.pc \in {"calling", "sleeping"}

\* C31: a call's retries run inside its single limiter admission: every call
\* that was started has exactly one dispatch, and so one window timestamp,
\* however many attempts it makes, and while it is attempting or backing off
\* the loop dispatches nothing and stays with it.
C31_RetriesInsideAdmission ==
    /\ [](/\ Len(log) = Cardinality({id \in CallIds : calls[id] \in {"running", "resolved", "rejected"}})
          /\ \A i, j \in 1..Len(log) : i # j => log[i].id # log[j].id
          /\ Len(requests) <= Len(log))
    /\ [][Retrying => /\ log' = log
                      /\ requests' = requests
                      /\ lastRequestTime' = lastRequestTime
                      /\ loop' = loop
                      /\ \A id \in CallIds : calls'[id] = "running" <=> id = loop.id]_vars

\* A call is in its third attempt while another waits in the queue, and time
\* enough has passed for the window to admit it.
C31_Witness ==
    /\ Retrying
    /\ retry.attempt = 2
    /\ Len(queue) > 0
    /\ canMakeRequest(requests, now)
    /\ now >= lastRequestTime + options.minInterval
    /\ Len(log) = 2

\* The loop sleeps until a time after the last clock value explored.
AsleepPastMaxTime == loop.pc \in {"waiting", "interval"} /\ loop.wake > MaxTime

CallSettled(id) == calls[id] \in {"resolved", "rejected"}

\* C33: no submitted call is stranded: whenever the queue is non-empty a
\* dispatch loop is active and processing is true; a call submitted while a
\* loop is active starts no second loop; and, when every started function
\* settles, every submitted call is eventually started and settled (within
\* the clock values explored: unless the loop is asleep until after MaxTime).
C33_NoCallStranded ==
    /\ [](/\ queue # <<>> => processing /\ loop.pc # "idle"
          /\ processing <=> loop.pc # "idle"
          /\ \A id \in CallIds : calls[id] = "queued" <=> \E k \in 1..Len(queue) : queue[k] = id)
    /\ [][(processing /\ \E id \in CallIds : calls[id] = "new" /\ calls'[id] # "new") =>
              loop' = loop /\ log' = log /\ processing']_vars
    /\ \A id \in CallIds :
          (calls[id] \in {"queued", "running"}) ~> (CallSettled(id) \/ AsleepPastMaxTime)

\* All calls were submitted and settled, the last one after the loop had to
\* wait for the window.
C33_Witness ==
    /\ \A id \in CallIds : CallSettled(id)
    /\ Len(log) = MaxCalls
    /\ log[MaxCalls].at >= log[1].at + options.timeWindow
    /\ ~processing

\* C34: getAllPairs eventually returns whenever every underlying read
\* eventually settles, for a factory with at least one pair and limit >= 1,
\* and the calls it submits to the rate limiter from inside its own limiter
\* admission are eventually dispatched.
C34_GetAllPairsReturns ==
    /\ (access.method = "getAllPairs" /\ access.pc \in {"run", "reading"})
          ~> (access.method = "getAllPairs" /\ access.pc = "returned")
    /\ (access.method = "getAllPairs" /\ Top = "queued") ~> (Top = "admitted")

\* ------------------------------------------------------------------------
\* Properties of the order of the phases (SpecScan)
\* ------------------------------------------------------------------------
IsPrefix(a, b) == Len(a) <= Len(b) /\ a = SubSeq(b, 1, Len(a))

AsResult(n) == IF n > 0 THEN "some" ELSE "empty"

\* C35: within one cycle that is not skipped the phases occur in the order
\* FetchBlock, SimpleScan, TriangularScan, Save, Metrics: the triangular scan
\* starts only when the simple scan has finished all its batches, and the
\* opportunities are handed to the sink once, after both scans, as the simple
\* results followed by the triangular ones, followed by the metrics update.
C35_PhaseOrder ==
    /\ \/ IsPrefix(hist[1].phases, AllPhases)
       \/ hist[1].phases = <<"FetchBlock", "ErrorCount">>
    /\ scan.stage = "batch" => ~Entered(1, "TriangularScan")
    /\ scan.stage = "triples" =>
          /\ cyc[1].pc = "triScan"
          /\ scan.cand = <<>>
          /\ scan.pairsDone = Len(getTokenPairs)
          /\ ~Entered(1, "Save")
    /\ cyc[1].pc \in {"save", "metrics"} =>
          /\ scan.stage = "done"
          /\ scan.triplesDone = Len(tokenTriples)
          /\ cyc[1].simple = AsResult(scan.opportunities)
          /\ cyc[1].tri = AsResult(scan.triOpportunities)
          /\ (cyc[1].pc = "save") = (hist[1].save = "notCalled")
    /\ hist[1].save # "notCalled" =>
          /\ scan.stage = "done"
          /\ hist[1].save = "skippedEmpty" <=> scan.opportunities + scan.triOpportunities = 0
    /\ hist[1].metrics # "notCalled" => hist[1].save # "notCalled"

\* The simple scan found opportunities and the triangular scan none; the
\* sink has stored them and the metrics update is awaited.
C35_Witness ==
    /\ cyc[1].pc = "metrics"
    /\ hist[1].phases = AllPhases
    /\ cyc[1].simple = "some"
    /\ cyc[1].tri = "empty"
    /\ hist[1].save = "stored"
    /\ hist[1].metrics = "notCalled"

\* ------------------------------------------------------------------------
\* Properties of the enumeration of pairs and triples (SpecScan)
\* ------------------------------------------------------------------------
TokenSet == {Tokens[i] : i \in 1..NumTokens}

\* How often the unordered pair {a, b} has been processed by the simple scan.
TimesPair(a, b) ==
    Cardinality({n \in DOMAIN scan.pairsSeen :
                    {scan.pairsSeen[n].tokenA, scan.pairsSeen[n].tokenB} = {a, b}})

\* How often the ordered triple (a, b, c) has been processed.
TimesTriple(a, b, c) ==
    Cardinality({n \in DOMAIN scan.triplesSeen :
                    scan.triplesSeen[n].triple = [tokenA |-> a, tokenB |-> b, tokenC |-> c]})

\* C36: the simple scan processes each unordered pair of distinct tokens
\* exactly once (T(T-1)/2 pairs, 6 for the four tokens) and the triangular scan
\* each ordered triple of pairwise distinct tokens exactly once (T(T-1)(T-2)
\* triples, 24 for the four tokens), the three legs of a triple being looked
\* up on the same exchange.
C36_EachPairAndTripleOnce ==
    /\ \A n \in DOMAIN scan.pairsSeen : scan.pairsSeen[n].tokenA # scan.pairsSeen[n].tokenB
    /\ \A a, b \in TokenSet : a # b => TimesPair(a, b) <= 1
    /\ \A n \in DOMAIN scan.triplesSeen :
          LET t == scan.triplesSeen[n].triple
              l == scan.triplesSeen[n].legs
          IN  /\ t.tokenA # t.tokenB /\ t.tokenB # t.tokenC /\ t.tokenC # t.tokenA
              /\ TimesTriple(t.tokenA, t.tokenB, t.tokenC) = 1
              /\ Len(l) = 3
              /\ l[1].factory = l[2].factory /\ l[2].factory = l[3].factory
              /\ <<l[1].tokenA, l[1].tokenB>> = <<t.tokenA, t.tokenB>>
              /\ <<l[2].tokenA, l[2].tokenB>> = <<t.tokenB, t.tokenC>>
              /\ <<l[3].tokenA, l[3].tokenB>> = <<t.tokenC, t.tokenA>>
    /\ scan.stage \in {"triples", "done"} =>
          /\ Len(scan.pairsSeen) = (NumTokens * (NumTokens - 1)) \div 2
          /\ Len(scan.pairsSeen) = 6
          /\ \A a, b \in TokenSet : a # b => TimesPair(a, b) = 1
    /\ scan.stage = "done" =>
          /\ Len(scan.triplesSeen) = NumTokens * (NumTokens - 1) * (NumTokens - 2)
          /\ Len(scan.triplesSeen) = 24
          /\ \A a, b, c \in TokenSet :
                (a # b /\ b # c /\ c # a) => TimesTriple(a, b, c) = 1

\* Both scans have run to their end, the last triple being (dai, usdt, usdc).
C36_Witness ==
    /\ scan.stage = "done"
    /\ Len(scan.pairsSeen) = 6
    /\ Len(scan.triplesSeen) = 24
    /\ scan.triplesSeen[24].triple = [tokenA |-> "dai", tokenB |-> "usdt", tokenC |-> "usdc"]

\* ------------------------------------------------------------------------
\* Properties of the pair-address cache (SpecPairs)
\* ------------------------------------------------------------------------
\* Call i wrote its entry before call j was made, and the caches have not
\* been cleared in between.
CachedBefore(i, j) ==
    /\ pairCache.calls[i].wrote
    /\ pairCache.calls[i].wroteAt < pairCache.calls[j].calledAt
    /\ pairCache.calls[i].clearsAtWrite = pairCache.calls[j].clearsAtCall

\* Calls i and j name the same factory and the same tokens in the same
\* order, compared without regard to case.
SameOrder(i, j) ==
    /\ pairCache.calls[i].factory = pairCache.calls[j].factory
    /\ pairCache.calls[i].tokenA.name = pairCache.calls[j].tokenA.name
    /\ pairCache.calls[i].tokenB.name = pairCache.calls[j].tokenB.name

\* Calls i and j name the same factory and the same two distinct tokens in
\* opposite orders.
ReversedOrder(i, j) ==
    /\ pairCache.calls[i].factory = pairCache.calls[j].factory
    /\ pairCache.calls[i].tokenA.name = pairCache.calls[j].tokenB.name
    /\ pairCache.calls[i].tokenB.name = pairCache.calls[j].tokenA.name
    /\ pairCache.calls[i].tokenA.name # pairCache.calls[i].tokenB.name

\* C37: the key of the pair-address cache is sensitive to the order of the
\* tokens. While the entry written by a successful getPairAddress(factory,
\* A, B) is cached, getPairAddress(factory, B, A) still goes to the limiter
\* and the network and on success adds a second entry, whereas a repeated
\* getPairAddress(factory, A, B), the tokens compared without regard to case,
\* returns the cached address without a limiter or network call.
C37_KeyOrderSensitive ==
    \A i, j \in DOMAIN pairCache.calls :
        CachedBefore(i, j) =>
            /\ SameOrder(i, j) =>
                  /\ ~pairCache.calls[j].submitted
                  /\ pairCache.calls[j].pc = "returned"
                  /\ pairCache.calls[j].result = pairCache.calls[i].result
            /\ (/\ ReversedOrder(i, j)
                /\ \A k \in DOMAIN pairCache.calls : ~(CachedBefore(k, j) /\ SameOrder(k, j))) =>
                  /\ pairCache.calls[j].submitted
                  /\ pairCache.calls[j].pc = "returned" => pairCache.calls[j].wrote
                  /\ (pairCache.calls[j].wrote /\ pairCache.calls[j].clearsAtWrite = pairCache.calls[i].clearsAtWrite) =>
                        /\ pairCache.calls[j].sizeAfter >= 2
                        /\ pairCache.calls[j].sizeAfter > pairCache.calls[i].sizeAfter
                        /\ pairCache.calls[j].result = pairCache.calls[i].result

\* getPairAddress(uniswapV2, A, B) succeeded; then getPairAddress(uniswapV2,
\* B, a) looked the pair up again and wrote a second entry; then
\* getPairAddress(uniswapV2, a, B) was answered from the cache.
C37_Witness ==
    /\ Len(pairCache.calls) = 3
    /\ CachedBefore(1, 2) /\ ReversedOrder(1, 2)
    /\ pairCache.calls[2].wrote /\ pairCache.calls[2].sizeAfter = 2
    /\ CachedBefore(1, 3) /\ SameOrder(1, 3)
    /\ pairCache.calls[1].tokenA # pairCache.calls[3].tokenA
    /\ ~pairCache.calls[3].submitted

\* ------------------------------------------------------------------------
\* Properties of a cycle whose opportunities could not be stored (Spec)
\* ------------------------------------------------------------------------
\* Activation c, whose opportunities the sink did not take, completes in
\* this step.
CompletesAfterDrop(c) ==
    /\ hist[c].save = "dropped"
    /\ hist[c].outcome = "running"
    /\ hist'[c].outcome = "completed"

\* C38: when storing the opportunities fails, the cycle still counts as
\* completed: the opportunities are dropped, updateSystemMetrics is still
\* called with the run's count, the error counter is not incremented, and
\* lastProcessedBlock advances to the cycle's block.
C38_DropStillCompletes ==
    /\ [](\A c \in Cycles :
            hist[c].save = "dropped" =>
                /\ hist[c].errCount = "notCalled"
                /\ hist[c].outcome \in {"running", "completed"}
                /\ hist[c].outcome = "completed" =>
                      /\ hist[c].metrics \in {"applied", "failed"}
                      /\ hist[c].wroteLastProcessed)
    /\ [][\A c \in Cycles :
            CompletesAfterDrop(c) =>
                /\ lastProcessedBlock' = hist[c].currentBlock
                /\ lastProcessedBlock' > lastProcessedBlock]_vars

\* ------------------------------------------------------------------------
\* Properties of findOptimalAmount (SpecSearch)
\* ------------------------------------------------------------------------
\* The simulations of the finished search that returned a profit >= 0.
NonNegative ==
    {n \in DOMAIN arb.call.res.evaluated :
        /\ arb.call.res.evaluated[n].result.ok
        /\ arb.call.res.evaluated[n].result.value.profit >= 0}

\* C39: findOptimalAmount makes at most `iterations` simulations (20 by
\* default); for minAmount <= maxAmount the amount returned lies in
\* [minAmount, maxAmount], and it is the simulated midpoint with the highest
\* profit when some simulated midpoint has a profit >= 0, and minAmount
\* otherwise.
C39_BoundedBestMidpoint ==
    arb.call.op = "findOptimalAmount" =>
        LET res == arb.call.res
            ev == res.evaluated
        IN  /\ Len(ev) <= arb.call.iterations
            /\ Len(ev) <= DefaultIterations
            /\ arb.call.minAmount <= arb.call.maxAmount =>
                  /\ arb.call.minAmount <= res.amount
                  /\ res.amount <= arb.call.maxAmount
                  /\ \A n \in DOMAIN ev :
                        arb.call.minAmount <= ev[n].mid /\ ev[n].mid <= arb.call.maxAmount
                  /\ IF NonNegative # {}
                     THEN \E n \in NonNegative :
                            /\ res.amount = ev[n].mid
                            /\ \A k \in DOMAIN ev :
                                  ev[k].result.ok =>
                                      ev[k].result.value.profit <= ev[n].result.value.profit
                     ELSE res.amount = arb.call.minAmount

\* A search of three or more simulations whose best amount is neither the
\* first nor the last midpoint simulated.
C39_Witness ==
    /\ arb.call.op = "findOptimalAmount"
    /\ arb.call.minAmount <= arb.call.maxAmount
    /\ Len(arb.call.res.evaluated) >= 3
    /\ NonNegative # {}
    /\ arb.call.res.amount # arb.call.res.evaluated[1].mid
    /\ arb.call.res.amount # arb.call.res.evaluated[Len(arb.call.res.evaluated)].mid

\* ------------------------------------------------------------------------
\* Properties of getAmountIn followed by getAmountOut (SpecMath)
\* ------------------------------------------------------------------------
\* getAmountOut has been applied to what getAmountIn returned for a valid
\* request: positive reserves and 0 < amount < reserveOut.
SufficientInputTried ==
    /\ math.op = "sufficientInput"
    /\ math.reserveIn > 0
    /\ math.reserveOut > 0
    /\ 0 < math.amount
    /\ math.amount < math.reserveOut

\* C40: getAmountIn returns an input sufficient for the requested output: for
\* rin, rout > 0 and 0 < y < rout, getAmountOut(getAmountIn(y, rin, rout), rin,
\* rout) >= y.
C40_InputSufficient ==
    /\ SufficientInputTried => (math.res.ok /\ math.res.value >= math.amount)
    /\ (math.reserveIn > 0 /\ math.reserveOut > 0 /\ 0 < math.amount
        /\ math.amount < math.reserveOut) =>
            getAmountIn(math.amount, math.reserveIn, math.reserveOut).ok

\* Three of the four units of the output reserve were asked for, and the input
\* computed for them buys three units.
C40_Witness ==
    /\ SufficientInputTried
    /\ math.amount = 3
    /\ math.reserveOut = 4
    /\ math.res = Returned(3)

====
